---- MODULE Spec2Model ----
(***************************************************************************)
(* Evaluation harvesting and ranking engine of promptyour-ai:             *)
(*   - ModelEvaluationScanner  (services/model_evaluation_scanner.py)     *)
(*   - EvaluationScheduler     (services/evaluation_scheduler.py)         *)
(*   - ThemeBasedModelSelector (services/model_selector_v2.py)            *)
(* The clock `now` counts whole hours.  Scores are exact rationals,       *)
(* written <<numerator, denominator>> in lowest terms.                    *)
(***************************************************************************)
EXTENDS FiniteSets, Integers, Sequences, TLC

VARIABLES
    now,                      \* wall clock, in hours
    is_running,               \* EvaluationScheduler.is_running
    model_selector,           \* EvaluationScheduler.model_selector: "None" or "selector"
    last_scans,               \* EvaluationScheduler.last_scans
    scan_stats,               \* EvaluationScheduler.scan_stats
    dynamic_model_scores,     \* ThemeBasedModelSelector.dynamic_model_scores
    last_evaluation_update,   \* ThemeBasedModelSelector.last_evaluation_update
    evaluation_sources,       \* the active sources of the configuration, in order
    scans,                    \* one record per execution of _run_scan
    loops,                    \* one record per _scheduler_loop task
    inits,                    \* one record per _run_initial_scan task
    forced,                   \* history: the number of force_scan calls so far
    last_result,              \* history: the _run_scan that returned last, and the last snapshot published
    selection,                \* one call of select_model: its arguments, its position, its result
    status,                   \* the dict a caller of get_scheduler_status holds
    freshness,                \* one call of _calculate_data_freshness: what it read, its result
    aggregation,              \* one run of the scanner's builders: the scraped data, what they returned
    normalization,            \* one raw model name and what _normalize_model_name returned for it
    chat_selector,            \* ChatService.model_selector: the snapshot of that instance
    arena,                    \* one call of _scrape_source for an arena source: the responses, its result
    reordering                \* one call of _filter_by_complexity: its arguments, its result

vars == <<now, is_running, model_selector, last_scans, scan_stats,
          dynamic_model_scores, last_evaluation_update, evaluation_sources,
          scans, loops, inits, forced, last_result, selection, status, freshness,
          aggregation, normalization, chat_selector, arena, reordering>>

-----------------------------------------------------------------------------
(* Bounds of the model *)

MaxConcurrent == 2   \* _run_scan coroutines alive at once
MaxLoops == 2        \* effective calls of start_scheduler, each with its two tasks
MaxForce == 1        \* calls of force_scan
MaxFailures == 1     \* scans that end in the exception path
MaxTime == 24        \* hours on the clock

ScanIds == 1..MaxConcurrent
LoopIds == 1..MaxLoops

\* Python's None where a time is expected, and where the selector is expected
None == 0 - 1
NoSelector == "None"

-----------------------------------------------------------------------------
(* Rational arithmetic *)

RECURSIVE GCD(_, _)
GCD(a, b) == IF b = 0 THEN a ELSE GCD(b, a % b)

Frac(n, d) == LET g == GCD(n, d) IN IF n = 0 THEN <<0, 1>> ELSE <<n \div g, d \div g>>
LCM(a, b) == (a \div GCD(a, b)) * b
FAdd(x, y) ==
    LET d == LCM(x[2], y[2]) IN Frac(x[1] * (d \div x[2]) + y[1] * (d \div y[2]), d)
FMul(x, y) ==
    LET a == Frac(x[1], y[2])
        b == Frac(y[1], x[2])
    IN IF a[1] * b[1] = 0 THEN <<0, 1>> ELSE <<a[1] * b[1], a[2] * b[2]>>
FDiv(x, y) == FMul(x, <<y[2], y[1]>>)
FLess(x, y) ==
    LET d == LCM(x[2], y[2]) IN x[1] * (d \div x[2]) < y[1] * (d \div y[2])
FLeq(x, y) ==
    LET d == LCM(x[2], y[2]) IN x[1] * (d \div x[2]) <= y[1] * (d \div y[2])
FInt(n) == <<n, 1>>

EmptyMap == [x \in {} |-> x]

\* f itself, computed once for all its arguments
Eager(f) == IF DOMAIN f = {} THEN f ELSE IF f = f THEN f ELSE f

-----------------------------------------------------------------------------
(* Configuration consumed by the scanner (config_manager) *)

SourceNames == {"srcA", "srcB"}
ConfiguredSources == <<"srcA", "srcB">>
ScanTypes == {"full_scan", "incremental", "leaderboard_only"}
Themes == {"coding_programming", "general_questions", "creative_writing",
           "personal_learning"}

\* theme -> source -> weight; a theme or a source that is absent has no weight
theme_source_weights ==
    [th \in {"coding_programming", "general_questions"} |->
        IF th = "coding_programming"
        THEN [s \in {"srcA", "srcB"} |-> IF s = "srcA" THEN Frac(6, 10) ELSE Frac(4, 10)]
        ELSE [s \in {"srcB"} |-> FInt(1)]]

-----------------------------------------------------------------------------
(* Observations: what one source returns *)

Num(n) == [kind |-> "num", v |-> n]
Str == [kind |-> "str", v |-> 0]       \* a non-empty JSON string such as "85.2"
NoneVal == [kind |-> "none", v |-> 0]

\* dict.get(name)
Get(scores, name) == IF name \in DOMAIN scores THEN scores[name] ELSE NoneVal

\* Python truth value of a metric
Truthy(val) == val.kind = "str" \/ (val.kind = "num" /\ val.v # 0)

\* scores.get("overall") or scores.get("Average") or 0
OverallOfAnyMetric(scores) ==
    IF Truthy(Get(scores, "overall")) THEN Get(scores, "overall")
    ELSE IF Truthy(Get(scores, "Average")) THEN Get(scores, "Average")
    ELSE IF Truthy(Get(scores, "rating")) THEN Get(scores, "rating")
    ELSE Num(0)
OverallOf(scores) ==
    IF Truthy(Get(scores, "overall")) THEN Get(scores, "overall")
    ELSE IF Truthy(Get(scores, "Average")) THEN Get(scores, "Average")
    ELSE Num(0)

\* `overall_score > 0` raises TypeError when the metric is a string
RaisesTypeError(scores) == OverallOf(scores).kind = "str"
Usable(scores) == OverallOf(scores).kind = "num" /\ OverallOf(scores).v > 0

Entry(m, sc) == [model |-> m, scores |-> sc]
Overall(n) == [k \in {"overall"} |-> Num(n)]

\* all_model_data flattened in iteration order: source by source, model by model
RECURSIVE FlattenSource(_, _)
FlattenSource(src, data) ==
    IF data = <<>> THEN <<>>
    ELSE <<[source |-> src, model |-> Head(data).model, scores |-> Head(data).scores]>>
         \o FlattenSource(src, Tail(data))

RECURSIVE Flatten(_)
Flatten(all_model_data) ==
    IF all_model_data = <<>> THEN <<>>
    ELSE FlattenSource(Head(all_model_data).source, Head(all_model_data).data)
         \o Flatten(Tail(all_model_data))

\* the models of a sequence of observations, in order of first appearance
RECURSIVE ModelsInOrder(_, _)
ModelsInOrder(obs, seen) ==
    IF obs = <<>> THEN <<>>
    ELSE IF Head(obs).model \in seen THEN ModelsInOrder(Tail(obs), seen)
    ELSE <<Head(obs).model>> \o ModelsInOrder(Tail(obs), seen \cup {Head(obs).model})

SourcesOf(all_model_data) == {all_model_data[i].source : i \in DOMAIN all_model_data}

ThemeWeightsOf(theme) ==
    IF theme \in DOMAIN theme_source_weights THEN theme_source_weights[theme] ELSE EmptyMap

\* theme_weights.get(source_name, 0)
SourceWeight(theme, src) ==
    IF src \in DOMAIN ThemeWeightsOf(theme) THEN ThemeWeightsOf(theme)[src] ELSE FInt(0)

RECURSIVE SumWeighted(_, _)
SumWeighted(obs, theme) ==
    IF obs = <<>> THEN FInt(0)
    ELSE FAdd(FMul(FInt(OverallOf(Head(obs).scores).v), SourceWeight(theme, Head(obs).source)),
              SumWeighted(Tail(obs), theme))

RECURSIVE SumWeights(_, _)
SumWeights(obs, theme) ==
    IF obs = <<>> THEN FInt(0)
    ELSE FAdd(SourceWeight(theme, Head(obs).source), SumWeights(Tail(obs), theme))

\* list.sort(key=score, reverse=True) is stable: equal scores keep their order
RECURSIVE InsertSorted(_, _)
InsertSorted(sorted, x) ==
    IF sorted = <<>> THEN <<x>>
    ELSE IF FLess(Head(sorted).score, x.score) THEN <<x>> \o sorted
    ELSE <<Head(sorted)>> \o InsertSorted(Tail(sorted), x)

RECURSIVE SortByScore(_, _)
SortByScore(items, acc) ==
    IF items = <<>> THEN acc
    ELSE SortByScore(Tail(items), InsertSorted(acc, Head(items)))

\* theme_scores[model] after the loops over the sources: the observations of a
\* model that count are those with a positive overall metric
ThemeScoresOf(obs, theme, m) ==
    LET Mine(o) == o.model = m /\ Usable(o.scores)
    IN [weighted_score |-> SumWeighted(SelectSeq(obs, Mine), theme),
        total_weight |-> SumWeights(SelectSeq(obs, Mine), theme)]

\* normalized_score, for a model whose total_weight is positive
NormalizedEntryUndivided(m, ts, sources_count) ==
    IF FLess(FInt(0), ts.total_weight)
    THEN <<[model |-> m, score |-> ts.weighted_score, sources_count |-> sources_count]>>
    ELSE <<>>
NormalizedEntry(m, ts, sources_count) ==
    IF FLess(FInt(0), ts.total_weight)
    THEN <<[model |-> m, score |-> FDiv(ts.weighted_score, ts.total_weight),
            sources_count |-> sources_count]>>
    ELSE <<>>

RECURSIVE Normalize(_, _, _, _)
Normalize(order, obs, theme, sources_count) ==
    IF order = <<>> THEN <<>>
    ELSE NormalizedEntry(Head(order), ThemeScoresOf(obs, theme, Head(order)), sources_count)
         \o Normalize(Tail(order), obs, theme, sources_count)

\* the ranks, from 1
RankedFromZero(e, i) ==
    [model |-> e.model, score |-> e.score, sources_count |-> e.sources_count, rank |-> i - 1]
Ranked(e, i) ==
    [model |-> e.model, score |-> e.score, sources_count |-> e.sources_count, rank |-> i]
RECURSIVE WithRanks(_, _)
WithRanks(sorted, i) ==
    IF sorted = <<>> THEN <<>>
    ELSE <<Ranked(Head(sorted), i)>> \o WithRanks(Tail(sorted), i + 1)

\* the observations of the sources that have a weight for the theme
ThemeObservations(all_model_data, theme) ==
    LET Weighted(o) == SourceWeight(theme, o.source) # FInt(0)
    IN SelectSeq(Flatten(all_model_data), Weighted)

ThemeRankingOf(obs, theme, sources_count) ==
    WithRanks(SortByScore(Normalize(ModelsInOrder(obs, {}), obs, theme, sources_count), <<>>), 1)

\* _calculate_theme_rankings for one theme
ThemeRanking(all_model_data, theme) ==
    ThemeRankingOf(ThemeObservations(all_model_data, theme), theme,
                   Cardinality({s \in DOMAIN ThemeWeightsOf(theme) :
                                   s \in SourcesOf(all_model_data)}))

_calculate_theme_rankings(all_model_data) ==
    Eager([th \in Themes |-> ThemeRanking(all_model_data, th)])

\* next((m for m in theme_data if m["model"] == model_name), None)
InRanking(ranking, m) == \E i \in DOMAIN ranking : ranking[i].model = m
RankingEntry(ranking, m) ==
    ranking[CHOOSE i \in DOMAIN ranking :
              ranking[i].model = m /\ \A j \in DOMAIN ranking : ranking[j].model = m => i <= j]

RECURSIVE SumOverall(_)
SumOverall(obs) ==
    IF obs = <<>> THEN 0 ELSE OverallOf(Head(obs).scores).v + SumOverall(Tail(obs))

\* total_score / source_count over the sources counted, 0 when there is none
MeanOverAllSources(mine, counted) ==
    IF Len(counted) > 0 THEN Frac(SumOverall(counted), Len(mine)) ELSE FInt(0)
MeanOverall(mine, counted) ==
    IF Len(counted) > 0 THEN Frac(SumOverall(counted), Len(counted)) ELSE FInt(0)

_create_model_evaluations(all_model_data, theme_rankings, utcnow) ==
    LET obs == Flatten(all_model_data)
        all_models == {obs[i].model : i \in DOMAIN obs}
    IN Eager([m \in all_models |->
          LET Mine(o) == o.model = m
              mine == SelectSeq(obs, Mine)
              Counts(o) == Usable(o.scores)
              counted == SelectSeq(mine, Counts)
              source_count == Len(counted)
          IN [model |-> m,
              overall_score |-> MeanOverall(mine, counted),
              theme_scores |-> [th \in {t \in Themes : InRanking(theme_rankings[t], m)} |->
                                  LET e == RankingEntry(theme_rankings[th], m)
                                  IN [score |-> e.score, rank |-> e.rank]],
              source_scores |-> [s \in {mine[i].source : i \in DOMAIN mine} |->
                                   mine[CHOOSE i \in DOMAIN mine : mine[i].source = s].scores],
              last_updated |-> utcnow,
              sources_count |-> source_count]])

\* the aggregation of run_full_scan raises when a metric cannot be compared with 0
AggregationRaises(all_model_data) ==
    \E i \in DOMAIN Flatten(all_model_data) : RaisesTypeError(Flatten(all_model_data)[i].scores)

-----------------------------------------------------------------------------
(* What one call of _scrape_source can do *)

PayloadA == <<Entry("gpt-4", Overall(90))>>
PayloadB == <<Entry("gpt-4", Overall(80)), Entry("claude-3-sonnet", Overall(95))>>
PayloadStr == <<Entry("gpt-4", [k \in {"overall"} |-> Str])>>
\* a model the selector has no profile of, and a model whose metric is null
PayloadC == <<Entry("mistral-7b", Overall(95)),
              Entry("claude-3-haiku", [k \in {"overall"} |-> NoneVal])>>

\* "raise": the exception leaves _scrape_source (source_config["scraping_config"] missing)
\* "none" : _scrape_source caught a network, HTTP, parse or timeout error and returned None
\* "data" : the parser returned a map
ScrapeOutcomes ==
    {[kind |-> "raise", data |-> <<>>], [kind |-> "none", data |-> <<>>]}
    \cup {[kind |-> "data", data |-> d] : d \in {PayloadA, PayloadStr}}

-----------------------------------------------------------------------------
(* Scheduler configuration *)

scan_intervals == [t \in ScanTypes |->
    IF t = "full_scan" THEN 24 ELSE IF t = "incremental" THEN 6 ELSE 2]

\* the order in which _scheduler_loop checks the tracks
TrackOrder == <<"full_scan", "incremental", "leaderboard_only">>

Instants == {0, 2, 6, 24}

\* the locals of one _run_scan / run_full_scan coroutine, with two history fields:
\* `concurrent`: a scan of the same type was running when this one started;
\* `failed_scrapes`: the calls of _scrape_source that raised or hit a caught error
UnusedScan == [origin |-> "none", owner |-> 0, type |-> "none", pc |-> "unused",
               scan_start |-> 0, sources |-> <<>>, idx |-> 0, all_model_data |-> <<>>,
               errors |-> <<>>, sources_scanned |-> 0, concurrent |-> FALSE,
               failed_scrapes |-> 0]

\* what is remembered of the _run_scan that returned last
Summary(rec, outcome) ==
    [origin |-> rec.origin, type |-> rec.type, status |-> outcome,
     concurrent |-> rec.concurrent, sources |-> Len(rec.sources),
     sources_scanned |-> rec.sources_scanned, failed_scrapes |-> rec.failed_scrapes,
     errors |-> Len(rec.errors)]

NoResult == [scan |-> Summary(UnusedScan, "none"), published |-> FALSE,
             scores |-> EmptyMap, at |-> None]

NoChecks == [t \in ScanTypes |-> [checked |-> FALSE, seen |-> None, triggered |-> FALSE]]
FreeLoop == [pc |-> "free", current_time |-> 0, track |-> 0, checks |-> NoChecks]
FreeInit == [pc |-> "free"]

Running(rec) == rec.pc = "scraping"

-----------------------------------------------------------------------------
(* The state touched by the scheduler's coroutines, as one value *)

St == [scans |-> scans, loops |-> loops, inits |-> inits, last_scans |-> last_scans,
       scan_stats |-> scan_stats, dms |-> dynamic_model_scores,
       leu |-> last_evaluation_update, last_result |-> last_result, blocked |-> FALSE]

Apply(st) ==
    \E v \in {st} :
    /\ ~v.blocked
    /\ v.scan_stats.failed_scans = scan_stats.failed_scans
       \/ scan_stats.failed_scans < MaxFailures
    /\ scans' = v.scans
    /\ loops' = v.loops
    /\ inits' = v.inits
    /\ last_scans' = v.last_scans
    /\ scan_stats' = v.scan_stats
    /\ dynamic_model_scores' = v.dms
    /\ last_evaluation_update' = v.leu
    /\ last_result' = v.last_result

HasFreeScan(st) == \E i \in ScanIds : st.scans[i].pc = "unused"
NextScanId(st) == CHOOSE i \in ScanIds :
    st.scans[i].pc = "unused" /\ \A j \in ScanIds : st.scans[j].pc = "unused" => i <= j

\* ThemeBasedModelSelector.update_dynamic_evaluations
update_scores_only(st, evaluation_data) ==
    [st EXCEPT !.dms = evaluation_data]
update_in_place(st, evaluation_data) ==
    [st EXCEPT !.dms = [m \in DOMAIN evaluation_data \cup DOMAIN @ |->
                           IF m \in DOMAIN evaluation_data THEN evaluation_data[m] ELSE @[m]],
               !.leu = now]
update_dynamic_evaluations(st, evaluation_data) ==
    [st EXCEPT !.dms = evaluation_data, !.leu = now]

\* the dynamic_scores map _update_model_selector builds
DynamicScores(model_evaluations) ==
    Eager([m \in DOMAIN model_evaluations |->
        [overall_score |-> FMul(model_evaluations[m].overall_score, FInt(100)),
         theme_scores |-> [th \in DOMAIN model_evaluations[m].theme_scores |->
                              FMul(model_evaluations[m].theme_scores[th].score, FInt(100))],
         sources_count |-> model_evaluations[m].sources_count,
         last_updated |-> model_evaluations[m].last_updated]])

_update_model_selector(st, model_evaluations) ==
    IF model_selector = NoSelector THEN st
    ELSE update_dynamic_evaluations(st, DynamicScores(model_evaluations))

\* the except block of _run_scan
ScanFailedTwice(st, rec) ==
    [st EXCEPT !.scan_stats.failed_scans = @ + 2,
               !.last_result = [@ EXCEPT !.scan = Summary(rec, "failed")]]
ScanFailedMarksTrack(st, rec) ==
    [st EXCEPT !.scan_stats.failed_scans = @ + 1,
               !.last_scans = IF rec.type \in ScanTypes
                              THEN [@ EXCEPT ![rec.type] = rec.scan_start] ELSE @,
               !.last_result = [@ EXCEPT !.scan = Summary(rec, "failed")]]
ScanFailed(st, rec) ==
    [st EXCEPT !.scan_stats.failed_scans = @ + 1,
               !.last_result = [@ EXCEPT !.scan = Summary(rec, "failed")]]

\* the tracking updates at the end of _run_scan's try block
ScanSucceededAllTracks(st, rec, models_found) ==
    [st EXCEPT !.last_scans = [t \in ScanTypes |-> rec.scan_start],
               !.scan_stats.total_scans = @ + 1,
               !.scan_stats.successful_scans = @ + 1,
               !.scan_stats.last_update = rec.scan_start,
               !.scan_stats.models_tracked = models_found]
ScanSucceeded(st, rec, models_found) ==
    [st EXCEPT !.last_scans[rec.type] = rec.scan_start,
               !.scan_stats.total_scans = @ + 1,
               !.scan_stats.successful_scans = @ + 1,
               !.scan_stats.last_update = rec.scan_start,
               !.scan_stats.models_tracked = models_found]

\* run_full_scan after the last source, then the rest of _run_scan; the coroutine is over
FinishScan(st, i, rec) ==
    IF AggregationRaises(rec.all_model_data)
    THEN [ScanFailed(st, rec) EXCEPT !.scans[i] = UnusedScan]
    ELSE LET theme_rankings == _calculate_theme_rankings(rec.all_model_data)
             model_evaluations ==
                 _create_model_evaluations(rec.all_model_data, theme_rankings, now)
             models_found == Cardinality(DOMAIN model_evaluations)
             pub == _update_model_selector(st, model_evaluations)
         IN [ScanSucceeded(pub, rec, models_found) EXCEPT
                !.scans[i] = UnusedScan,
                !.last_result =
                    IF model_selector = NoSelector
                    THEN [@ EXCEPT !.scan = Summary(rec, "ok")]
                    ELSE [scan |-> Summary(rec, "ok"),
                          published |-> TRUE,
                          scores |-> DynamicScores(model_evaluations),
                          at |-> now]]

\* _run_scan from its start to its first suspension, or to its end when it never
\* suspends: an unknown type raises at once, a scan of zero sources ends at once
\* (_load_configuration awaits nothing that suspends)
_run_scan(st, origin, owner, type) ==
    IF ~HasFreeScan(st) THEN [st EXCEPT !.blocked = TRUE]
    ELSE LET i == NextScanId(st)
             rec == [UnusedScan EXCEPT !.origin = origin, !.owner = owner, !.type = type,
                                       !.scan_start = now,
                                       !.concurrent = \E j \in ScanIds :
                                            Running(st.scans[j]) /\ st.scans[j].type = type]
             loaded == [rec EXCEPT !.sources = evaluation_sources, !.idx = 1,
                                   !.pc = "scraping"]
         IN IF type \notin ScanTypes
            THEN ScanFailed(st, rec)
            ELSE IF evaluation_sources = <<>>
            THEN FinishScan(st, i, loaded)
            ELSE [st EXCEPT !.scans[i] = loaded]

\* the scan that _run_scan(st, ...) would start is still running in its result
Suspended(st, after) == ~after.blocked /\ Running(after.scans[NextScanId(st)])

\* _check_and_run_scan's condition
DueStrictly(last_scan, current_time, scan_type) ==
    last_scan = None \/ (current_time - last_scan) > scan_intervals[scan_type]
Due(last_scan, current_time, scan_type) ==
    last_scan = None \/ (current_time - last_scan) >= scan_intervals[scan_type]

\* _scheduler_loop from the check of track `from` to its next suspension
RECURSIVE LoopChecks(_, _, _)
LoopChecks(st, l, from) ==
    IF from > Len(TrackOrder)
    THEN [st EXCEPT !.loops[l].pc = "sleep", !.loops[l].track = 0]
    ELSE LET t == TrackOrder[from]
             due == Due(st.last_scans[t], st.loops[l].current_time, t)
             noted == [st EXCEPT !.loops[l].checks[t] =
                          [checked |-> TRUE, seen |-> st.last_scans[t], triggered |-> due]]
             ran == _run_scan([noted EXCEPT !.loops[l].pc = "scan", !.loops[l].track = from],
                              "loop", l, t)
         IN IF ~due THEN LoopChecks(noted, l, from + 1)
            ELSE IF ran.blocked \/ Suspended(noted, ran) THEN ran
            ELSE LoopChecks(ran, l, from + 1)

\* what runs when the awaited _run_scan returns to its caller
Continue(st, rec) ==
    IF rec.origin = "loop" THEN LoopChecks(st, rec.owner, st.loops[rec.owner].track + 1)
    ELSE IF rec.origin = "initial" THEN [st EXCEPT !.inits[rec.owner].pc = "done"]
    ELSE st

-----------------------------------------------------------------------------
(* ThemeBasedModelSelector: configuration *)

NoTheme == "None"     \* ProcessedContext.theme is Optional
BudgetTiers == {"budget", "balanced", "premium"}

\* dict.get(key, default)
GetOr(map, key, default) == IF key \in DOMAIN map THEN map[key] ELSE default

\* the cost_tiers a configuration may hold: none (the defaults of the code apply)
\* and a cheaper balanced tier
CostTiers == {EmptyMap, [t \in {"balanced"} |-> Frac(4, 100)]}

\* the tier_preferences a configuration may hold: none, empty lists, a model
\* that has no entry in base_models
TierPreferences ==
    {EmptyMap,
     [t \in BudgetTiers |-> <<>>],
     [t \in {"budget"} |-> <<"mistral-7b">>]}

base_models(cost_tiers) ==
    Eager([m \in {"gpt-4", "gpt-3.5-turbo", "claude-3-opus", "claude-3-sonnet",
            "claude-3-haiku", "gemini-pro"} |->
        IF m = "gpt-4"
        THEN [provider |-> "openai", cost_per_1k_tokens |-> GetOr(cost_tiers, "premium", FInt(1)),
              strengths |-> {"reasoning", "creative", "complex_analysis"}, tier |-> "premium"]
        ELSE IF m = "gpt-3.5-turbo"
        THEN [provider |-> "openai", cost_per_1k_tokens |-> GetOr(cost_tiers, "budget", Frac(1, 100)),
              strengths |-> {"speed", "cost_effective", "general"}, tier |-> "budget"]
        ELSE IF m = "claude-3-opus"
        THEN [provider |-> "anthropic", cost_per_1k_tokens |-> GetOr(cost_tiers, "premium", FInt(1)),
              strengths |-> {"reasoning", "analysis", "writing"}, tier |-> "premium"]
        ELSE IF m = "claude-3-sonnet"
        THEN [provider |-> "anthropic", cost_per_1k_tokens |-> GetOr(cost_tiers, "balanced", Frac(5, 100)),
              strengths |-> {"balanced", "coding", "reasoning"}, tier |-> "balanced"]
        ELSE IF m = "claude-3-haiku"
        THEN [provider |-> "anthropic", cost_per_1k_tokens |-> GetOr(cost_tiers, "budget", Frac(1, 100)),
              strengths |-> {"speed", "cost", "simple_tasks"}, tier |-> "budget"]
        ELSE [provider |-> "google", cost_per_1k_tokens |-> GetOr(cost_tiers, "budget", Frac(1, 100)),
              strengths |-> {"multimodal", "cost", "speed"}, tier |-> "budget"]])

\* theme_model_rankings as _load_configuration builds it, for the themes modelled
theme_model_rankings(tp) ==
    Eager([th \in Themes |->
        IF th = "creative_writing"
        THEN [primary |-> GetOr(tp, "premium", <<"gpt-4", "claude-3-opus">>),
              budget |-> GetOr(tp, "budget", <<"gpt-3.5-turbo", "claude-3-haiku">>)]
        ELSE IF th = "coding_programming"
        THEN [primary |-> GetOr(tp, "balanced", <<"claude-3-sonnet", "gpt-4">>),
              budget |-> GetOr(tp, "budget", <<"claude-3-haiku", "gpt-3.5-turbo">>)]
        ELSE IF th = "personal_learning"
        THEN [primary |-> GetOr(tp, "balanced", <<"claude-3-sonnet", "claude-3-haiku">>),
              budget |-> GetOr(tp, "budget", <<"claude-3-haiku", "gpt-3.5-turbo">>)]
        ELSE [primary |-> GetOr(tp, "budget", <<"claude-3-haiku", "gpt-3.5-turbo">>),
              budget |-> GetOr(tp, "budget", <<"claude-3-haiku", "gpt-3.5-turbo">>)]])

complexity_models(tp) ==
    Eager([c \in {"beginner", "intermediate", "advanced", "academic", "professional"} |->
        IF c = "beginner"
        THEN GetOr(tp, "budget", <<"claude-3-haiku", "gpt-3.5-turbo">>)
        ELSE IF c = "intermediate"
        THEN GetOr(tp, "balanced", <<"claude-3-sonnet", "gpt-4">>)
        ELSE IF c = "academic"
        THEN GetOr(tp, "premium", <<"claude-3-opus", "gpt-4">>)
        ELSE GetOr(tp, "premium", <<"gpt-4", "claude-3-opus">>)])

subject_strength_mapping ==
    [sub \in {"mathematics", "programming", "creative writing", "science", "business",
              "research", "general knowledge"} |->
        IF sub \in {"mathematics", "programming", "science"} THEN "reasoning"
        ELSE IF sub = "creative writing" THEN "creative"
        ELSE IF sub \in {"business", "research"} THEN "analysis"
        ELSE "general"]

-----------------------------------------------------------------------------
(* Python lists *)

Member(seq, x) == \E i \in DOMAIN seq : seq[i] = x
\* list.index(x), counted from 0
IndexOf(seq, x) == (CHOOSE i \in DOMAIN seq : seq[i] = x /\ \A j \in 1..(i - 1) : seq[j] # x) - 1
\* seq[:n]
Take(seq, n) == SubSeq(seq, 1, IF Len(seq) < n THEN Len(seq) ELSE n)
\* [x for x in seq if x not in other]
Without(seq, other) == LET Keep(x) == ~Member(other, x) IN SelectSeq(seq, Keep)

\* the elements of seq in order, each once
RECURSIVE Unique(_, _)
Unique(seq, acc) ==
    IF seq = <<>> THEN acc
    ELSE Unique(Tail(seq), IF Member(acc, Head(seq)) THEN acc ELSE Append(acc, Head(seq)))

FMin(x, y) == IF FLess(y, x) THEN y ELSE x
FSub(x, y) == FAdd(x, <<0 - y[1], y[2]>>)

-----------------------------------------------------------------------------
(* ThemeBasedModelSelector: select_model.  A snapshot is the pair read from *)
(* dynamic_model_scores and last_evaluation_update.                          *)

FreshHours == 7 * 24     \* timedelta(days=7)
NoSnapshot == [scores |-> EmptyMap, at |-> None]

_get_theme_candidates(rankings, theme, budget_tier) ==
    LET theme_config == rankings[theme]
    IN IF budget_tier = "premium" THEN Take(theme_config.primary, 3)
       ELSE IF budget_tier = "budget"
       THEN theme_config.budget \o Take(Without(theme_config.primary, theme_config.budget), 4)
       ELSE Take(theme_config.primary, 2) \o Take(theme_config.budget, 1)

_filter_by_complexity_preferred_only(cmodels, candidates, complexity) ==
    IF complexity \notin DOMAIN cmodels THEN candidates
    ELSE LET InCandidates(m) == Member(candidates, m)
         IN Unique(SelectSeq(cmodels[complexity], InCandidates), <<>>)
_filter_by_complexity(cmodels, candidates, complexity) ==
    IF complexity \notin DOMAIN cmodels THEN candidates
    ELSE LET InCandidates(m) == Member(candidates, m)
         IN Unique(candidates, Unique(SelectSeq(cmodels[complexity], InCandidates), <<>>))

_get_theme_alignment_score(rankings, model, theme) ==
    LET theme_config == rankings[theme]
    IN IF Member(theme_config.primary, model)
       THEN FSub(FInt(1), Frac(IndexOf(theme_config.primary, model), 10))
       ELSE IF Member(theme_config.budget, model)
       THEN FSub(Frac(6, 10), Frac(IndexOf(theme_config.budget, model), 10))
       ELSE Frac(3, 10)

_get_complexity_alignment_score(cmodels, model, complexity) ==
    IF complexity \notin DOMAIN cmodels THEN Frac(7, 10)
    ELSE IF Member(cmodels[complexity], model)
    THEN FSub(FInt(1), Frac(IndexOf(cmodels[complexity], model), 10))
    ELSE Frac(1, 2)

_get_subject_alignment_score(bmodels, model, subject) ==
    IF model \notin DOMAIN bmodels THEN Frac(1, 2)
    ELSE LET strengths == bmodels[model].strengths
             required_strength == GetOr(subject_strength_mapping, subject, "general")
         IN IF required_strength \in strengths THEN Frac(9, 10)
            ELSE IF "reasoning" \in strengths /\ required_strength \in {"reasoning", "analysis"}
            THEN Frac(8, 10)
            ELSE Frac(6, 10)

_calculate_base_score(rankings, cmodels, bmodels, model, context) ==
    IF model \notin DOMAIN bmodels THEN Frac(1, 2)
    ELSE LET theme_alignment == _get_theme_alignment_score(rankings, model, context.theme)
             complexity_alignment ==
                 _get_complexity_alignment_score(cmodels, model, context.inferred_complexity)
             cost_efficiency ==
                 FDiv(FInt(1), FAdd(FMul(bmodels[model].cost_per_1k_tokens, FInt(100)), FInt(1)))
             subject_alignment ==
                 _get_subject_alignment_score(bmodels, model, context.inferred_subject)
             final_score ==
                 FAdd(FAdd(FMul(theme_alignment, Frac(3, 10)), FMul(complexity_alignment, Frac(3, 10))),
                      FAdd(FMul(subject_alignment, Frac(3, 10)), FMul(cost_efficiency, Frac(1, 10))))
         IN FMin(final_score, FInt(1))

\* the result is [none |-> TRUE] for Python's None; the _strict variant drops a
\* snapshot that is exactly 7 days old
_get_dynamic_score_strict(snapshot, clock, model, context) ==
    IF DOMAIN snapshot.scores = {} \/ snapshot.at = None
    THEN [none |-> TRUE, v |-> FInt(0)]
    ELSE IF clock - snapshot.at >= FreshHours
    THEN [none |-> TRUE, v |-> FInt(0)]
    ELSE IF model \notin DOMAIN snapshot.scores
    THEN [none |-> TRUE, v |-> FInt(0)]
    ELSE LET model_data == snapshot.scores[model]
         IN IF context.theme \in DOMAIN model_data.theme_scores
            THEN [none |-> FALSE, v |-> FDiv(model_data.theme_scores[context.theme], FInt(100))]
            ELSE [none |-> FALSE, v |-> FDiv(model_data.overall_score, FInt(100))]
_get_dynamic_score(snapshot, clock, model, context) ==
    IF DOMAIN snapshot.scores = {} \/ snapshot.at = None
    THEN [none |-> TRUE, v |-> FInt(0)]
    ELSE IF clock - snapshot.at > FreshHours
    THEN [none |-> TRUE, v |-> FInt(0)]
    ELSE IF model \notin DOMAIN snapshot.scores
    THEN [none |-> TRUE, v |-> FInt(0)]
    ELSE LET model_data == snapshot.scores[model]
         IN IF context.theme \in DOMAIN model_data.theme_scores
            THEN [none |-> FALSE, v |-> FDiv(model_data.theme_scores[context.theme], FInt(100))]
            ELSE [none |-> FALSE, v |-> FDiv(model_data.overall_score, FInt(100))]

\* the score of one candidate, with the snapshot it was computed from
ScoreCandidate(rankings, cmodels, bmodels, snapshot, clock, model, context) ==
    LET base_score == _calculate_base_score(rankings, cmodels, bmodels, model, context)
        dynamic_score == _get_dynamic_score(snapshot, clock, model, context)
    IN [model |-> model,
        score |-> IF dynamic_score.none THEN base_score
                  ELSE FAdd(FMul(base_score, Frac(7, 10)), FMul(dynamic_score.v, Frac(3, 10))),
        snapshot |-> snapshot]

\* scored_models in insertion order
_apply_dynamic_scoring_torn(rankings, cmodels, bmodels, snapshot, clock, candidates, context) ==
    LET models == Unique(candidates, <<>>)
    IN Eager([i \in DOMAIN models |->
          ScoreCandidate(rankings, cmodels, bmodels, IF i = 1 THEN NoSnapshot ELSE snapshot,
                         clock, models[i], context)])
_apply_dynamic_scoring(rankings, cmodels, bmodels, snapshot, clock, candidates, context) ==
    LET models == Unique(candidates, <<>>)
    IN Eager([i \in DOMAIN models |->
          ScoreCandidate(rankings, cmodels, bmodels, snapshot, clock, models[i], context)])

\* the _unfiltered variant applies no cost ceiling
_select_optimal_model_unfiltered(bmodels, cost_tiers, scored_models, budget_tier) ==
    IF scored_models = <<>> THEN "claude-3-sonnet"
    ELSE SortByScore(scored_models, <<>>)[1].model
_select_optimal_model(bmodels, cost_tiers, scored_models, budget_tier) ==
    IF scored_models = <<>> THEN "claude-3-sonnet"
    ELSE LET sorted_models == SortByScore(scored_models, <<>>)
             budget_limit == GetOr(cost_tiers, "budget", Frac(1, 100))
             Affordable(e) ==
                 FLeq(IF e.model \in DOMAIN bmodels
                      THEN bmodels[e.model].cost_per_1k_tokens ELSE FInt(1),
                      budget_limit)
             budget_models == SelectSeq(sorted_models, Affordable)
         IN IF budget_tier = "budget" /\ budget_models # <<>>
            THEN budget_models[1].model
            ELSE sorted_models[1].model

\* f"{score:.2f}": the score in hundredths, rounded
Fmt2(score) == (200 * score[1] + score[2]) \div (2 * score[2])

UnknownModelConfiguration == "(unknown model configuration)"
NoReasoning == [model |-> "none", qualifier |-> "none", reasons |-> <<>>, confidence |-> None]

\* the reasoning string, as its parts: the model, the text in parentheses, the
\* reasons in order, and the confidence printed at its end
_generate_selection_reasoning(rankings, cmodels, snapshot, model, context, score, config) ==
    LET theme_config == rankings[context.theme]
        theme_reason ==
            IF Member(theme_config.primary, model)
            THEN <<"optimized for", context.theme>> ELSE <<>>
        complexity_reason ==
            IF context.inferred_complexity \in DOMAIN cmodels
               /\ Member(cmodels[context.inferred_complexity], model)
            THEN <<"well-suited for", context.inferred_complexity>> ELSE <<>>
        cost_reason ==
            IF FLess(config.cost_per_1k_tokens, Frac(1, 100)) THEN <<"cost-effective choice">>
            ELSE IF FLess(Frac(5, 100), config.cost_per_1k_tokens)
            THEN <<"premium model for high-quality output">>
            ELSE <<>>
        dynamic_reason ==
            IF model \in DOMAIN snapshot.scores
            THEN <<"performs well in recent evaluations">> ELSE <<>>
    IN [model |-> model,
        qualifier |-> config.tier,
        reasons |-> theme_reason \o complexity_reason \o cost_reason \o dynamic_reason,
        confidence |-> Fmt2(score)]

\* the ModelChoice of a model that has a static profile
KnownModelChoice(rankings, cmodels, bmodels, snapshot, selected_model, context, score) ==
    [model |-> selected_model,
     provider |-> bmodels[selected_model].provider,
     confidence |-> score,
     reasoning |-> _generate_selection_reasoning(rankings, cmodels, snapshot, selected_model,
                                                 context, score, bmodels[selected_model]),
     estimated_cost |-> FMul(Frac(context.estimated_tokens, 1000),
                             bmodels[selected_model].cost_per_1k_tokens)]

\* the ModelChoice of a model that has none; the Zero variant reports confidence 0
UnknownModelChoiceZero(selected_model) ==
    [model |-> selected_model, provider |-> "unknown", confidence |-> FInt(0),
     reasoning |-> [NoReasoning EXCEPT !.model = selected_model,
                                       !.qualifier = UnknownModelConfiguration],
     estimated_cost |-> Frac(1, 100)]
UnknownModelChoice(selected_model) ==
    [model |-> selected_model, provider |-> "unknown", confidence |-> Frac(1, 2),
     reasoning |-> [NoReasoning EXCEPT !.model = selected_model,
                                       !.qualifier = UnknownModelConfiguration],
     estimated_cost |-> Frac(1, 100)]

\* scored_models.get(selected_model, 0.5); the First variant reads the first entry
ScoreOfFirst(scored_models, selected_model) ==
    IF scored_models = <<>> THEN Frac(1, 2) ELSE scored_models[1].score
ScoreOf(scored_models, selected_model) ==
    LET Selected(e) == e.model = selected_model
        hit == SelectSeq(scored_models, Selected)
    IN IF hit = <<>> THEN Frac(1, 2) ELSE hit[1].score

_create_model_choice(rankings, cmodels, bmodels, snapshot, selected_model, context, scored_models) ==
    IF selected_model \notin DOMAIN bmodels
    THEN UnknownModelChoice(selected_model)
    ELSE KnownModelChoice(rankings, cmodels, bmodels, snapshot, selected_model, context,
                          ScoreOf(scored_models, selected_model))

NoChoice == [model |-> "none", provider |-> "none", confidence |-> FInt(0),
             reasoning |-> NoReasoning, estimated_cost |-> FInt(0)]

\* select_model after its configuration is loaded; `raised` is the KeyError of
\* theme_model_rankings[theme] for a theme that is no ThemeType
select_model(tp, cost_tiers, snapshot, clock, context, budget_tier) ==
    IF context.theme \notin Themes
    THEN [raised |-> TRUE, choice |-> NoChoice, scored_models |-> <<>>]
    ELSE LET rankings == theme_model_rankings(tp)
             cmodels == complexity_models(tp)
             bmodels == base_models(cost_tiers)
             theme_candidates == _get_theme_candidates(rankings, context.theme, budget_tier)
             complexity_filtered ==
                 _filter_by_complexity(cmodels, theme_candidates, context.inferred_complexity)
             scored_models == _apply_dynamic_scoring(rankings, cmodels, bmodels, snapshot,
                                                     clock, complexity_filtered, context)
             selected_model ==
                 _select_optimal_model(bmodels, cost_tiers, scored_models, budget_tier)
         IN [raised |-> FALSE,
             choice |-> _create_model_choice(rankings, cmodels, bmodels, snapshot,
                                             selected_model, context, scored_models),
             scored_models |-> scored_models]

-----------------------------------------------------------------------------
(* Initial state: the objects as constructed *)

NoContext == [theme |-> NoTheme, inferred_subject |-> "none",
              inferred_complexity |-> "none", estimated_tokens |-> 0]
NoSelection == [pc |-> "idle", context |-> NoContext, budget_tier |-> "none",
                tier_preferences |-> EmptyMap, cost_tiers |-> EmptyMap,
                started_at |-> None, clock |-> None, snapshot |-> NoSnapshot,
                latest |-> NoSnapshot,
                result |-> [raised |-> FALSE, choice |-> NoChoice, scored_models |-> <<>>]]

\* datetime.isoformat: a string made from the time
isoformat(t) == [iso |-> t]

\* the only dict a status value refers to without copying it
ScanStatsRef == "self.scan_stats"

\* no call of get_scheduler_status yet; `called` is a history field: the value of
\* scan_stats when the call was made
NoStatus == [held |-> FALSE, is_running |-> FALSE, last_scans |-> EmptyMap,
             next_scans |-> EmptyMap, statistics |-> "none", called |-> EmptyMap]

\* timedelta(hours=1) and timedelta(days=1), in minutes
Hour == 60
Day == 24 * Hour

\* EvaluationScheduler._calculate_data_freshness, with the selector's
\* last_evaluation_update and datetime.now() in minutes; the _inclusive variant
\* puts each boundary in the fresher class
_calculate_data_freshness_inclusive(selector, last_update, clock) ==
    IF selector = NoSelector \/ last_update = None THEN "no_data"
    ELSE LET age == clock - last_update
         IN IF age <= 1 * Hour THEN "very_fresh"
            ELSE IF age <= 6 * Hour THEN "fresh"
            ELSE IF age <= 24 * Hour THEN "acceptable"
            ELSE IF age <= 3 * Day THEN "stale"
            ELSE "very_stale"
_calculate_data_freshness(selector, last_update, clock) ==
    IF selector = NoSelector \/ last_update = None THEN "no_data"
    ELSE LET age == clock - last_update
         IN IF age < 1 * Hour THEN "very_fresh"
            ELSE IF age < 6 * Hour THEN "fresh"
            ELSE IF age < 24 * Hour THEN "acceptable"
            ELSE IF age < 3 * Day THEN "stale"
            ELSE "very_stale"

NoFreshness == [pc |-> "idle", selector |-> NoSelector, last_update |-> None,
                clock |-> 0, result |-> "none"]

\* no run of the builders yet
NoAggregation ==
    [pc |-> "idle", all_model_data |-> <<>>, utcnow |-> None, theme_rankings |-> EmptyMap,
     model_evaluations |-> EmptyMap, again_at |-> None, again |-> EmptyMap]

\* no name normalized yet
NoNormalization == [pc |-> "idle", raw_name |-> <<>>, once |-> <<>>, twice |-> <<>>]

\* ThemeBasedModelSelector.__init__: no dynamic scores, no update time
NewChatSelector == [dynamic_model_scores |-> EmptyMap, last_evaluation_update |-> None]

\* no arena source scraped yet
NoArena == [pc |-> "idle", api_endpoint |-> FALSE, api |-> "none", html |-> "none",
            html_attempted |-> FALSE, source_data |-> [kind |-> "none", data |-> <<>>],
            errors |-> 0]

\* _filter_by_complexity not called yet
NoReordering == [pc |-> "idle", candidates |-> <<>>, complexity |-> "none",
                 preferred |-> <<>>, recognised |-> FALSE, result |-> <<>>]

ActiveSourceLists == {<<>>, <<"srcA">>, <<"srcA", "srcB">>}

Init ==
    /\ now = 0
    /\ is_running = FALSE
    /\ model_selector = NoSelector
    /\ last_scans = [t \in ScanTypes |-> None]
    /\ scan_stats = [total_scans |-> 0, successful_scans |-> 0, failed_scans |-> 0,
                     models_tracked |-> 0, last_update |-> None]
    /\ dynamic_model_scores = EmptyMap
    /\ last_evaluation_update = None
    /\ evaluation_sources \in ActiveSourceLists
    /\ scans = [i \in ScanIds |-> UnusedScan]
    /\ loops = [l \in LoopIds |-> FreeLoop]
    /\ inits = [l \in LoopIds |-> FreeInit]
    /\ forced = 0
    /\ last_result = NoResult
    /\ selection = NoSelection
    /\ status = NoStatus
    /\ freshness = NoFreshness
    /\ aggregation = NoAggregation
    /\ normalization = NoNormalization
    /\ chat_selector = NewChatSelector
    /\ arena = NoArena
    /\ reordering = NoReordering

-----------------------------------------------------------------------------
(* Actions *)

AdvanceTime(t) ==
    /\ now < t
    /\ now' = t
    /\ UNCHANGED <<reordering, arena, chat_selector, normalization, aggregation, freshness, status, selection, is_running, model_selector, last_scans, scan_stats, dynamic_model_scores,
                   last_evaluation_update, evaluation_sources, scans, loops, inits,
                   forced, last_result>>

\* EvaluationScheduler.start_scheduler
start_scheduler ==
    IF is_running
    THEN UNCHANGED vars
    ELSE \E l \in LoopIds :
           /\ loops[l].pc = "free" /\ inits[l].pc = "free"
           /\ \A k \in LoopIds : (loops[k].pc = "free" /\ inits[k].pc = "free") => l <= k
           /\ model_selector' = "selector"
           /\ is_running' = TRUE
           /\ loops' = [loops EXCEPT ![l] = [FreeLoop EXCEPT !.pc = "top"]]
           /\ inits' = [inits EXCEPT ![l] = [pc |-> "wait"]]
           /\ UNCHANGED <<reordering, arena, chat_selector, normalization, aggregation, freshness, status, selection, now, last_scans, scan_stats, dynamic_model_scores,
                          last_evaluation_update, evaluation_sources, scans, forced,
                          last_result>>

\* EvaluationScheduler.stop_scheduler
stop_scheduler ==
    /\ is_running' = FALSE
    /\ UNCHANGED <<reordering, arena, chat_selector, normalization, aggregation, freshness, status, selection, now, model_selector, last_scans, scan_stats, dynamic_model_scores,
                   last_evaluation_update, evaluation_sources, scans, loops, inits,
                   forced, last_result>>

\* one pass of the while loop of _scheduler_loop, from its test to its next await
LoopIterate(l) ==
    /\ loops[l].pc \in {"top", "sleep"}
    /\ IF ~is_running
       THEN Apply([St EXCEPT !.loops[l].pc = "done"])
       ELSE Apply(LoopChecks([St EXCEPT !.loops[l].current_time = now,
                                        !.loops[l].checks = NoChecks], l, 1))
    /\ UNCHANGED <<reordering, arena, chat_selector, normalization, aggregation, freshness, status, selection, now, is_running, model_selector, evaluation_sources, forced>>

\* ModelEvaluationScanner.get_cached_evaluations: nothing is cached, whatever
\* the age asked for
NoCache == "None"
get_cached_evaluations(max_age_hours) == NoCache

\* _run_initial_scan after its sleep: the cached evaluations if there are any,
\* else a full_scan
InitialScan(l) ==
    /\ inits[l].pc = "wait"
    /\ LET cached_data == get_cached_evaluations(12)
       IN IF cached_data # NoCache
          THEN Apply([_update_model_selector(St, cached_data) EXCEPT !.inits[l].pc = "done"])
          ELSE LET ran == _run_scan([St EXCEPT !.inits[l].pc = "scan"], "initial", l,
                                    "full_scan")
               IN IF ran.blocked \/ Suspended(St, ran) THEN Apply(ran)
                  ELSE Apply([ran EXCEPT !.inits[l].pc = "done"])
    /\ UNCHANGED <<reordering, arena, chat_selector, normalization, aggregation, freshness, status, selection, now, is_running, model_selector, evaluation_sources, forced>>

\* EvaluationScheduler.force_scan
force_scan(scan_type) ==
    /\ forced < MaxForce
    /\ forced' = forced + 1
    /\ Apply(_run_scan(St, "force", 0, scan_type))
    /\ UNCHANGED <<reordering, arena, chat_selector, normalization, aggregation, freshness, status, selection, now, is_running, model_selector, evaluation_sources>>

\* the body of run_full_scan's loop for one source
ScrapeResult(rec, o) ==
    LET source_name == rec.sources[rec.idx]
    IN IF o.kind = "raise"
       THEN [rec EXCEPT !.errors = Append(@, source_name), !.idx = @ + 1,
                        !.failed_scrapes = @ + 1]
       ELSE IF o.kind = "data" /\ o.data # <<>>
       THEN [rec EXCEPT !.all_model_data = Append(@, [source |-> source_name, data |-> o.data]),
                        !.sources_scanned = @ + 1, !.idx = @ + 1]
       ELSE IF o.kind = "none"
       THEN [rec EXCEPT !.idx = @ + 1, !.failed_scrapes = @ + 1]
       ELSE [rec EXCEPT !.idx = @ + 1]

\* the loop over self.evaluation_sources.items() is over
FirstSourceAttempted(rec) == rec.idx > 1
AllSourcesAttempted(rec) == rec.idx > Len(rec.sources)

\* one source is scraped; after the last one the scan aggregates, publishes and returns
ScrapeStep(i, o) ==
    /\ scans[i].pc = "scraping"
    /\ LET rec == ScrapeResult(scans[i], o)
       IN IF AllSourcesAttempted(rec)
          THEN Apply(Continue(FinishScan(St, i, rec), rec))
          ELSE Apply([St EXCEPT !.scans[i] = rec])
    /\ UNCHANGED <<reordering, arena, chat_selector, normalization, aggregation, freshness, status, selection, now, is_running, model_selector, evaluation_sources, forced>>

\* EvaluationScheduler._get_next_scan_times
_get_next_scan_times ==
    [t \in ScanTypes |->
        IF last_scans[t] # None THEN isoformat(last_scans[t] + scan_intervals[t])
        ELSE "pending"]

\* EvaluationScheduler.get_scheduler_status, called by one reader that keeps the
\* dict it got: "statistics" is self.scan_stats itself, the rest is built anew
get_scheduler_status ==
    /\ ~status.held
    /\ status' = [held |-> TRUE,
                  is_running |-> is_running,
                  last_scans |-> [t \in ScanTypes |->
                                    IF last_scans[t] # None THEN isoformat(last_scans[t])
                                    ELSE NoneVal],
                  next_scans |-> _get_next_scan_times,
                  statistics |-> ScanStatsRef,
                  called |-> scan_stats]
    /\ UNCHANGED <<reordering, arena, chat_selector, normalization, aggregation, freshness, selection, now, is_running, model_selector, last_scans,
                   scan_stats, dynamic_model_scores, last_evaluation_update,
                   evaluation_sources, scans, loops, inits, forced, last_result>>

\* what the reader finds under "statistics" in the dict it holds
StatisticsOf(s) == IF s.statistics = ScanStatsRef THEN scan_stats ELSE s.called

\* the scan types force_scan is called with: two tracks and an unknown type
ForcedTypes == {"full_scan", "incremental", "bogus"}

\* the current snapshot of the selector, and the last one published
CurrentSnapshot == [scores |-> dynamic_model_scores, at |-> last_evaluation_update]
LatestPublished ==
    IF last_result.published THEN [scores |-> last_result.scores, at |-> last_result.at]
    ELSE NoSnapshot

\* what a scan may have gathered when it publishes
PublishedData ==
    {<<>>,
     <<[source |-> "srcA", data |-> PayloadA]>>,
     <<[source |-> "srcA", data |-> PayloadA], [source |-> "srcB", data |-> PayloadB]>>,
     <<[source |-> "srcA", data |-> PayloadC]>>}

SelectorInstants == {FreshHours, FreshHours + 1}

\* the map _update_model_selector builds from the scan of all_model_data that ends
\* at time utcnow
ScanScores(all_model_data, utcnow) ==
    DynamicScores(_create_model_evaluations(all_model_data,
                                            _calculate_theme_rankings(all_model_data),
                                            utcnow))
PublishedScores ==
    Eager([d \in PublishedData |->
             Eager([u \in {0} \cup SelectorInstants |-> ScanScores(d, u)])])

\* _update_model_selector with the evaluations of one scan, seen from the selector
PublishEvaluations(all_model_data) ==
    /\ Apply([update_dynamic_evaluations(St, PublishedScores[all_model_data][now]) EXCEPT
                 !.last_result = [@ EXCEPT !.published = TRUE,
                                           !.scores = PublishedScores[all_model_data][now],
                                           !.at = now]])
    /\ UNCHANGED <<reordering, arena, chat_selector, normalization, aggregation, freshness, status, selection, now, is_running, model_selector, evaluation_sources, forced>>

\* select_model up to the await of _load_configuration; calls do not affect one
\* another, so one call per behaviour is followed
SelectStart(context, budget_tier, tp, ct) ==
    /\ selection.pc = "idle"
    /\ selection' = [NoSelection EXCEPT !.pc = "loading", !.context = context,
                                        !.budget_tier = budget_tier,
                                        !.tier_preferences = tp,
                                        !.cost_tiers = ct,
                                        !.started_at = last_evaluation_update]
    /\ UNCHANGED <<reordering, arena, chat_selector, normalization, aggregation, freshness, status, now, is_running, model_selector, last_scans, scan_stats,
                   dynamic_model_scores, last_evaluation_update, evaluation_sources,
                   scans, loops, inits, forced, last_result>>

\* the rest of select_model: it awaits nothing more
SelectFinish ==
    /\ selection.pc = "loading"
    /\ selection' = [selection EXCEPT
           !.pc = "done",
           !.latest = LatestPublished,
           !.clock = now,
           !.snapshot = CurrentSnapshot,
           !.result = select_model(selection.tier_preferences, selection.cost_tiers,
                                   CurrentSnapshot, now, selection.context,
                                   selection.budget_tier)]
    /\ UNCHANGED <<reordering, arena, chat_selector, normalization, aggregation, freshness, status, now, is_running, model_selector, last_scans, scan_stats,
                   dynamic_model_scores, last_evaluation_update, evaluation_sources,
                   scans, loops, inits, forced, last_result>>

-----------------------------------------------------------------------------
(* Spec: the scheduler with its loop, the startup scan and forced scans, over *)
(* one active source and the clock                                            *)

CadenceOutcomes == {[kind |-> "data", data |-> d] : d \in {PayloadA, PayloadStr}}

Next ==
    \/ \E t \in Instants : t <= MaxTime /\ AdvanceTime(t)
    \/ start_scheduler
    \/ \E l \in LoopIds : LoopIterate(l)
    \/ \E l \in LoopIds : InitialScan(l)
    \/ \E i \in ScanIds, o \in CadenceOutcomes : ScrapeStep(i, o)

InitCadence == Init /\ evaluation_sources = <<"srcA">>

Spec == InitCadence /\ [][Next]_vars

-----------------------------------------------------------------------------
(* SpecScan: the scans themselves, started at startup and by force_scan, over *)
(* every list of active sources and every outcome of a source                 *)

NextScan ==
    \/ AdvanceTime(MaxTime)
    \/ start_scheduler
    \/ \E l \in LoopIds : InitialScan(l)
    \/ \E t \in ForcedTypes : force_scan(t)
    \/ \E i \in ScanIds, o \in ScrapeOutcomes : ScrapeStep(i, o)

SpecScan == Init /\ [][NextScan]_vars

-----------------------------------------------------------------------------
(* SpecSelector: a call of select_model interleaved with publications, up to *)
(* its return                                                               *)

Contexts ==
    [theme : Themes \cup {NoTheme},
     inferred_subject : {"programming", "creative writing", "poetry"},
     inferred_complexity : {"beginner", "advanced", "expert"},
     estimated_tokens : {500}]

NextSelector ==
    \/ selection.pc # "done" /\ \E t \in SelectorInstants : AdvanceTime(t)
    \/ selection.pc # "done" /\ \E d \in PublishedData : PublishEvaluations(d)
    \/ \E c \in Contexts, b \in BudgetTiers, tp \in TierPreferences, ct \in CostTiers :
          SelectStart(c, b, tp, ct)
    \/ SelectFinish

InitSelector == Init /\ evaluation_sources = <<>>

SpecSelector == InitSelector /\ [][NextSelector]_vars

-----------------------------------------------------------------------------
(* SpecPublish: publications one after the other, and a call of select_model *)
(* that keeps the snapshot it was served from                                *)

PublishContexts ==
    [theme : {"coding_programming", "general_questions"},
     inferred_subject : {"programming"},
     inferred_complexity : {"beginner"},
     estimated_tokens : {500}]

NextPublish ==
    \/ \E t \in SelectorInstants : AdvanceTime(t)
    \/ \E d \in PublishedData : PublishEvaluations(d)
    \/ \E c \in PublishContexts, b \in BudgetTiers : SelectStart(c, b, EmptyMap, EmptyMap)
    \/ SelectFinish

SpecPublish == InitSelector /\ [][NextPublish]_vars

-----------------------------------------------------------------------------
(* SpecChat: the requests of ChatService, whose selector is the instance made *)
(* in ChatService.__init__, while the scheduler started by the route           *)
(* /scheduler/start publishes to the instance made there                      *)

\* the snapshot of ChatService.model_selector
ChatSnapshot ==
    [scores |-> chat_selector.dynamic_model_scores,
     at |-> chat_selector.last_evaluation_update]

\* process_user_request: self.model_selector.select_model(context), up to the
\* await of _load_configuration
ChatSelectStart(context) ==
    /\ selection.pc = "idle"
    /\ selection' = [NoSelection EXCEPT !.pc = "loading", !.context = context,
                                        !.budget_tier = "balanced",
                                        !.started_at = chat_selector.last_evaluation_update]
    /\ UNCHANGED <<reordering, arena, chat_selector, normalization, aggregation, freshness, status, now,
                   is_running, model_selector, last_scans, scan_stats, dynamic_model_scores,
                   last_evaluation_update, evaluation_sources, scans, loops, inits, forced,
                   last_result>>

\* the rest of that call
ChatSelectFinish ==
    /\ selection.pc = "loading"
    /\ selection' = [selection EXCEPT
           !.pc = "done",
           !.latest = LatestPublished,
           !.clock = now,
           !.snapshot = ChatSnapshot,
           !.result = select_model(selection.tier_preferences, selection.cost_tiers,
                                   ChatSnapshot, now, selection.context,
                                   selection.budget_tier)]
    /\ UNCHANGED <<reordering, arena, chat_selector, normalization, aggregation, freshness, status, now,
                   is_running, model_selector, last_scans, scan_stats, dynamic_model_scores,
                   last_evaluation_update, evaluation_sources, scans, loops, inits, forced,
                   last_result>>

NextChat ==
    \/ \E t \in SelectorInstants : AdvanceTime(t)
    \/ start_scheduler
    \/ model_selector # NoSelector /\ \E d \in PublishedData : PublishEvaluations(d)
    \/ \E c \in PublishContexts : ChatSelectStart(c)
    \/ ChatSelectFinish

SpecChat == InitSelector /\ [][NextChat]_vars

-----------------------------------------------------------------------------
(* SpecLifecycle: start_scheduler and stop_scheduler called in any order while *)
(* the loops and the startup scans go on                                       *)

NextLifecycle ==
    \/ start_scheduler
    \/ stop_scheduler
    \/ \E l \in LoopIds : LoopIterate(l)
    \/ \E l \in LoopIds : InitialScan(l)
    \/ \E i \in ScanIds : ScrapeStep(i, [kind |-> "data", data |-> PayloadA])

SpecLifecycle == InitCadence /\ [][NextLifecycle]_vars

-----------------------------------------------------------------------------
(* SpecStatus: a reader of the scheduler's status while scans run *)

NextStatus ==
    \/ start_scheduler
    \/ stop_scheduler
    \/ \E l \in LoopIds : InitialScan(l)
    \/ \E t \in ForcedTypes : force_scan(t)
    \/ \E i \in ScanIds, o \in CadenceOutcomes : ScrapeStep(i, o)
    \/ get_scheduler_status

SpecStatus == InitCadence /\ [][NextStatus]_vars

-----------------------------------------------------------------------------
(* SpecFreshness: _calculate_data_freshness over the times of the last *)
(* publication and of the call, in minutes                             *)

\* the times of the last publication, and the ages of the snapshot at the call
UpdateMinutes == {0, 1, 30, Hour, 10 * Hour}
AgeMinutes == {0, 59, Hour, 61, 6 * Hour - 1, 6 * Hour, 6 * Hour + 1, Day - 1, Day,
               25 * Hour, 3 * Day - 1, 3 * Day, 4 * Day}

\* one call, with a selector that published at last_update and the clock at `clock`
CalculateFreshness(selector, last_update, clock) ==
    /\ freshness.pc = "idle"
    /\ freshness' = [pc |-> "done", selector |-> selector, last_update |-> last_update,
                     clock |-> clock,
                     result |-> _calculate_data_freshness(selector, last_update, clock)]
    /\ UNCHANGED <<reordering, arena, chat_selector, normalization, aggregation, status, selection, now, is_running, model_selector, last_scans,
                   scan_stats, dynamic_model_scores, last_evaluation_update,
                   evaluation_sources, scans, loops, inits, forced, last_result>>

NextFreshness ==
    \/ \E clock \in AgeMinutes : CalculateFreshness(NoSelector, None, clock)
    \/ \E clock \in AgeMinutes : CalculateFreshness("selector", None, clock)
    \/ \E last_update \in UpdateMinutes, age \in AgeMinutes :
          CalculateFreshness("selector", last_update, last_update + age)

SpecFreshness == Init /\ [][NextFreshness]_vars

-----------------------------------------------------------------------------
(* SpecAggregation: the builders of run_full_scan, _calculate_theme_rankings *)
(* and _create_model_evaluations, over the data the sources can return       *)

\* two models with the same metric, in the two orders a source can list them
PayloadTie == <<Entry("gpt-4", Overall(90)), Entry("claude-3-sonnet", Overall(90))>>
PayloadTieReversed == <<Entry("claude-3-sonnet", Overall(90)), Entry("gpt-4", Overall(90))>>
\* a leaderboard that reports "Average" and no "overall"
PayloadAverage == <<Entry("gpt-4", [k \in {"Average"} |-> Num(70)])>>

\* a metric of zero, which the builders do not count
PayloadZero == <<Entry("gpt-4", Overall(80)), Entry("claude-3-sonnet", Overall(0))>>

\* what the arena API stores for a model: its score under "rating"
PayloadRating == <<Entry("gpt-4", [k \in {"rating"} |-> Num(1150)]),
                   Entry("claude-3-sonnet", [k \in {"rating"} |-> Num(1124)])>>

ScannedPayloads ==
    {PayloadA, PayloadB, PayloadC, PayloadTie, PayloadTieReversed, PayloadAverage,
     PayloadZero, PayloadRating}

\* all_model_data after the loop over the sources: the sources that returned
\* data, in the order they were scraped
ScannedData ==
    {<<>>}
    \cup {<<[source |-> src, data |-> d]>> : src \in SourceNames, d \in ScannedPayloads}
    \cup {<<[source |-> "srcA", data |-> a], [source |-> "srcB", data |-> b]>> :
             a \in ScannedPayloads, b \in ScannedPayloads}
    \cup {<<[source |-> "srcB", data |-> b], [source |-> "srcA", data |-> a]>> :
             a \in ScannedPayloads, b \in ScannedPayloads}

\* the two builders, as run_full_scan calls them at the time utcnow
Aggregate(all_model_data, utcnow) ==
    /\ aggregation.pc = "idle"
    /\ aggregation' =
          [pc |-> "done", all_model_data |-> all_model_data, utcnow |-> utcnow,
           theme_rankings |-> _calculate_theme_rankings(all_model_data),
           model_evaluations |->
               _create_model_evaluations(all_model_data,
                                         _calculate_theme_rankings(all_model_data), utcnow),
           again_at |-> None, again |-> EmptyMap]
    /\ UNCHANGED <<reordering, arena, chat_selector, normalization, freshness, status, selection, now, is_running,
                   model_selector, last_scans, scan_stats, dynamic_model_scores,
                   last_evaluation_update, evaluation_sources, scans, loops, inits, forced,
                   last_result>>

\* _create_model_evaluations called once more with the same arguments, later
AggregateAgain(utcnow) ==
    /\ aggregation.pc = "done"
    /\ aggregation.utcnow < utcnow
    /\ aggregation' =
          [aggregation EXCEPT
             !.pc = "again", !.again_at = utcnow,
             !.again = _create_model_evaluations(aggregation.all_model_data,
                                                 aggregation.theme_rankings, utcnow)]
    /\ UNCHANGED <<reordering, arena, chat_selector, normalization, freshness, status, selection, now, is_running,
                   model_selector, last_scans, scan_stats, dynamic_model_scores,
                   last_evaluation_update, evaluation_sources, scans, loops, inits, forced,
                   last_result>>

NextAggregation ==
    \/ \E all_model_data \in ScannedData, utcnow \in Instants : Aggregate(all_model_data, utcnow)
    \/ \E utcnow \in Instants : AggregateAgain(utcnow)

SpecAggregation == InitSelector /\ [][NextAggregation]_vars

-----------------------------------------------------------------------------
(* SpecNormalization: _normalize_model_name. A name is the sequence of the   *)
(* pieces it is written with: blanks, provider prefixes, stems and suffixes *)

Blank == " "
NamePieces == {Blank, "google/", "Meta-Llama/", "gemini", "gpt-4-turbo", "GPT-4-Turbo",
               "-chat", "-Instruct"}
MaxNameLen == 3

\* str.lower(), piece by piece
LowerPiece(piece) ==
    CASE piece = "Meta-Llama/" -> "meta-llama/"
      [] piece = "GPT-4-Turbo" -> "gpt-4-turbo"
      [] piece = "-Instruct" -> "-instruct"
      [] OTHER -> piece
Lower(name) == [i \in DOMAIN name |-> LowerPiece(name[i])]

\* the alternatives of the two patterns, matched with re.IGNORECASE
ProviderPrefixes == {"meta-llama/", "microsoft/", "google/", "anthropic/"}
VariantSuffixes == {"-chat", "-instruct", "-base"}

\* the default of model_config.get('model_aliases', ...)
model_aliases ==
    [key \in {<<"gpt-4-turbo">>, <<"claude-3-opus-20240229">>, <<"claude-3-sonnet-20240229">>,
              <<"claude-3-haiku-20240307">>, <<"gemini-pro">>, <<"llama-2-70b">>} |->
        CASE key = <<"gpt-4-turbo">> -> <<"gpt-4">>
          [] key = <<"claude-3-opus-20240229">> -> <<"claude-3-opus">>
          [] key = <<"claude-3-sonnet-20240229">> -> <<"claude-3-sonnet">>
          [] key = <<"claude-3-haiku-20240307">> -> <<"claude-3-haiku">>
          [] OTHER -> key]

\* str.strip(): the blanks at both ends
RECURSIVE LStrip(_)
LStrip(name) == IF name # <<>> /\ Head(name) = Blank THEN LStrip(Tail(name)) ELSE name
RECURSIVE RStrip(_)
RStrip(name) ==
    IF name # <<>> /\ name[Len(name)] = Blank
    THEN RStrip(SubSeq(name, 1, Len(name) - 1)) ELSE name
Strip(name) == RStrip(LStrip(name))

\* re.sub(r'^(...)', '', name): the pattern matches once, at the start
RemovePrefix(name) ==
    IF name # <<>> /\ LowerPiece(Head(name)) \in ProviderPrefixes THEN Tail(name) ELSE name

\* re.sub(r'-(chat|instruct|base)$', '', name): the pattern matches once, at the end
RemoveSuffix(name) ==
    IF name # <<>> /\ LowerPiece(name[Len(name)]) \in VariantSuffixes
    THEN SubSeq(name, 1, Len(name) - 1) ELSE name

\* name_mappings.get(name.lower(), name)
ApplyAlias(name) ==
    IF Lower(name) \in DOMAIN model_aliases THEN model_aliases[Lower(name)] ELSE name

_normalize_model_name(raw_name) == ApplyAlias(RemoveSuffix(RemovePrefix(Strip(raw_name))))

RawNames == UNION {[1..n -> NamePieces] : n \in 0..MaxNameLen}

\* _normalize_model_name(raw_name)
NormalizeName(raw_name) ==
    /\ normalization.pc = "idle"
    /\ normalization' = [pc |-> "once", raw_name |-> raw_name,
                         once |-> _normalize_model_name(raw_name), twice |-> <<>>]
    /\ UNCHANGED <<reordering, arena, chat_selector, aggregation, freshness, status, selection, now, is_running,
                   model_selector, last_scans, scan_stats, dynamic_model_scores,
                   last_evaluation_update, evaluation_sources, scans, loops, inits, forced,
                   last_result>>

\* _normalize_model_name applied to what it returned
NormalizeAgain ==
    /\ normalization.pc = "once"
    /\ normalization' = [normalization EXCEPT
                            !.pc = "twice", !.twice = _normalize_model_name(normalization.once)]
    /\ UNCHANGED <<reordering, arena, chat_selector, aggregation, freshness, status, selection, now, is_running,
                   model_selector, last_scans, scan_stats, dynamic_model_scores,
                   last_evaluation_update, evaluation_sources, scans, loops, inits, forced,
                   last_result>>

NextNormalization ==
    \/ \E raw_name \in RawNames : NormalizeName(raw_name)
    \/ NormalizeAgain

SpecNormalization == InitSelector /\ [][NextNormalization]_vars

-----------------------------------------------------------------------------
(* SpecArena: _scrape_source for a source of type "arena", over what the API *)
(* endpoint and the HTML page can answer                                     *)

\* the answers of the API endpoint: the request raises; a status other than
\* 200; a body that is no JSON; JSON of another shape; a list of records
ApiAnswers == {"exception", "status_404", "status_500", "invalid_json", "not_a_list",
               "no_fields", "null_scores", "bad_items", "records"}

\* what _scrape_leaderboard does with the page at the source's URL
HtmlAnswers ==
    {[kind |-> "raise", data |-> <<>>]}
    \cup {[kind |-> "data", data |-> d] : d \in {<<>>, PayloadA, PayloadB, PayloadC, PayloadTie}}

\* _parse_arena_data: anything but a list gives {}, a record without the two
\* fields or with a null score is skipped, `in item` raises for a number
_parse_arena_data(body) ==
    CASE body = "records" -> [kind |-> "data", data |-> PayloadRating]
      [] body = "bad_items" -> [kind |-> "raise", data |-> <<>>]
      [] OTHER -> [kind |-> "data", data |-> <<>>]

\* the try block of _scrape_arena: whether it returns, and what
ApiPath(api) ==
    IF api \in {"exception", "status_404", "status_500", "invalid_json"}
    THEN [kind |-> "raise", data |-> <<>>]
    ELSE _parse_arena_data(api)

_scrape_arena(api_endpoint, api, html) ==
    IF api_endpoint /\ ApiPath(api).kind = "data"
    THEN [html_attempted |-> FALSE, outcome |-> ApiPath(api)]
    ELSE [html_attempted |-> TRUE, outcome |-> html]

\* _scrape_source catches what _scrape_arena raises and returns None
_scrape_source(api_endpoint, api, html) ==
    IF _scrape_arena(api_endpoint, api, html).outcome.kind = "raise"
    THEN [kind |-> "none", data |-> <<>>]
    ELSE _scrape_arena(api_endpoint, api, html).outcome

\* one iteration of run_full_scan's loop for the arena source
ScrapeArena(api_endpoint, api, html) ==
    /\ arena.pc = "idle"
    /\ arena' = [pc |-> "done", api_endpoint |-> api_endpoint, api |-> api, html |-> html,
                 html_attempted |-> _scrape_arena(api_endpoint, api, html).html_attempted,
                 source_data |-> _scrape_source(api_endpoint, api, html),
                 errors |-> Len(ScrapeResult([UnusedScan EXCEPT !.sources = <<"srcA">>,
                                                               !.idx = 1],
                                             _scrape_source(api_endpoint, api, html)).errors)]
    /\ UNCHANGED <<reordering, chat_selector, normalization, aggregation, freshness, status,
                   selection, now, is_running, model_selector, last_scans, scan_stats,
                   dynamic_model_scores, last_evaluation_update, evaluation_sources, scans,
                   loops, inits, forced, last_result>>

NextArena ==
    \E api_endpoint \in BOOLEAN, api \in ApiAnswers, html \in HtmlAnswers :
        ScrapeArena(api_endpoint, api, html)

SpecArena == InitSelector /\ [][NextArena]_vars

-----------------------------------------------------------------------------
(* SpecReordering: _filter_by_complexity over candidate lists, with repeated *)
(* models, and complexities, one of them unknown to complexity_models        *)

MaxCandidates == 3
CandidateModels == {"gpt-4", "claude-3-sonnet", "claude-3-haiku", "mistral-7b"}
CandidateLists == UNION {[1..n -> CandidateModels] : n \in 0..MaxCandidates}
Complexities == {"beginner", "intermediate", "advanced", "expert"}

\* self.complexity_models[complexity]["preferred"], nothing for another complexity
PreferredFor(cmodels, complexity) ==
    IF complexity \in DOMAIN cmodels THEN cmodels[complexity] ELSE <<>>

FilterByComplexity(tp, candidates, complexity) ==
    /\ reordering.pc = "idle"
    /\ reordering' =
          [pc |-> "done", candidates |-> candidates, complexity |-> complexity,
           preferred |-> PreferredFor(complexity_models(tp), complexity),
           recognised |-> complexity \in DOMAIN complexity_models(tp),
           result |-> _filter_by_complexity(complexity_models(tp), candidates, complexity)]
    /\ UNCHANGED <<arena, chat_selector, normalization, aggregation, freshness, status,
                   selection, now, is_running, model_selector, last_scans, scan_stats,
                   dynamic_model_scores, last_evaluation_update, evaluation_sources, scans,
                   loops, inits, forced, last_result>>

NextReordering ==
    \E tp \in TierPreferences, candidates \in CandidateLists, complexity \in Complexities :
        FilterByComplexity(tp, candidates, complexity)

SpecReordering == InitSelector /\ [][NextReordering]_vars

-----------------------------------------------------------------------------
(* Properties of the scans (SpecScan) *)

\* this step is the return of a _run_scan coroutine to its caller
ScanReturns ==
    \/ \E i \in ScanIds : Running(scans[i]) /\ ~Running(scans'[i])
    \/ forced' # forced /\ scans' = scans
    \/ \E l \in LoopIds : inits[l].pc = "wait" /\ inits'[l].pc = "done"

SnapshotUnchanged ==
    /\ dynamic_model_scores' = dynamic_model_scores
    /\ last_evaluation_update' = last_evaluation_update

\* C1: when every active source of a scan fails, the scan completes with no model
\* found and the selector's snapshot (scores and timestamp) stays as it was
C1_AllSourcesFailKeepsSnapshot ==
    [][(ScanReturns /\ last_result'.scan.sources > 0
                    /\ last_result'.scan.failed_scrapes = last_result'.scan.sources)
       => /\ last_result'.scan.status = "ok"
          /\ scan_stats'.models_tracked = 0
          /\ SnapshotUnchanged]_vars

\* C2: a scan that ends in the exception path of _run_scan, an unknown scan type
\* included, adds exactly one to failed_scans and leaves the selector's snapshot alone
C2_FailureCountsOnce ==
    [][(ScanReturns /\ last_result'.scan.status = "failed")
       => /\ scan_stats'.failed_scans = scan_stats.failed_scans + 1
          /\ scan_stats'.successful_scans = scan_stats.successful_scans
          /\ SnapshotUnchanged]_vars

C2_Witness ==
    /\ last_result.scan.status = "failed"
    /\ last_result.scan.type = "bogus"
    /\ scan_stats.failed_scans = 1
    /\ last_result.published
    /\ dynamic_model_scores = last_result.scores
    /\ DOMAIN dynamic_model_scores # {}

\* C5: every failed scrape of a source adds exactly one entry to the scan's errors,
\* so a scan whose N sources all fail ends with N errors
C5_EveryFailureRecorded ==
    [][ScanReturns => last_result'.scan.errors = last_result'.scan.failed_scrapes]_vars

\* C6: whatever sources fail, the scan completes, and it finds at least one model
\* when at least one source returned at least one model
C6_AnySubsetFailing ==
    [][(ScanReturns /\ last_result'.scan.type \in ScanTypes)
       => /\ last_result'.scan.status = "ok"
          /\ (last_result'.scan.sources_scanned > 0 => scan_stats'.models_tracked > 0)]_vars

\* a step of a _run_scan started by force_scan, and the type it was asked for
ForcedStep(t) ==
    \/ forced' # forced /\ last_result'.scan.origin = "force" /\ last_result'.scan.type = t
                        /\ scans' = scans
    \/ \E i \in ScanIds : /\ scans'[i] # scans[i]
                          /\ \/ scans[i].origin = "force" /\ scans[i].type = t
                             \/ scans'[i].origin = "force" /\ scans'[i].type = t

\* C9: force_scan(t) changes the last-scan time of no track but t, whether the scan
\* succeeds or fails
C9_ForceTouchesOwnTrackOnly ==
    [][\A t \in ForcedTypes : ForcedStep(t) =>
          \A u \in ScanTypes \ {t} : last_scans'[u] = last_scans[u]]_vars

C9_Witness ==
    /\ last_result.scan.origin = "force"
    /\ last_result.scan.status = "ok"
    /\ last_result.scan.type = "incremental"
    /\ last_scans["incremental"] # None
    /\ last_scans["full_scan"] = None

\* C10: force_scan of a type that is being scanned cancels nothing: the scan in
\* progress is left as it is, and the snapshot is the one of the scan that
\* published last
C10_OverlappingScans ==
    /\ [](last_result.published =>
            /\ dynamic_model_scores = last_result.scores
            /\ last_evaluation_update = last_result.at)
    /\ [][forced' # forced =>
            \A i \in ScanIds : Running(scans[i]) => scans'[i] = scans[i]]_vars

C10_Witness ==
    /\ last_result.scan.concurrent
    /\ last_result.scan.status = "ok"
    /\ last_result.published
    /\ scan_stats.successful_scans = 2
    /\ last_evaluation_update = MaxTime
    /\ \A i \in ScanIds : ~Running(scans[i])

-----------------------------------------------------------------------------
(* Properties of the startup step (SpecScan) *)

\* C11: the startup step of a started scheduler starts no scan when evaluations
\* younger than the max age (12 hours) exist, and runs a full_scan otherwise
C11_StartupReusesRecentSnapshot ==
    [][\A l \in LoopIds :
          (inits[l].pc = "wait" /\ inits'[l].pc # "wait")
          => IF last_result.published /\ now - last_result.at < 12
             THEN scans' = scans /\ last_result'.scan = last_result.scan
             ELSE \/ \E i \in ScanIds : /\ ~Running(scans[i]) /\ Running(scans'[i])
                                        /\ scans'[i].type = "full_scan"
                  \/ /\ last_result'.scan.origin = "initial"
                     /\ last_result'.scan.type = "full_scan"]_vars

-----------------------------------------------------------------------------
(* Properties of the status (SpecStatus) *)

\* C12: the status a reader got from get_scheduler_status is a copy: scans that
\* complete after the call change none of the values it holds
C12_StatusIsACopy ==
    status.held => StatisticsOf(status) = status.called

-----------------------------------------------------------------------------
(* Properties of the data freshness (SpecFreshness) *)

FreshnessAge == freshness.clock - freshness.last_update

\* C20: data_freshness depends on the age of the snapshot only: no_data when nothing
\* was ever published, very_fresh below 1 hour, fresh from 1 hour to below 6,
\* acceptable from 6 hours to below 24, stale from 24 hours to below 3 days,
\* very_stale from 3 days on
C20_FreshnessByAge ==
    freshness.pc = "done" =>
        /\ freshness.last_update = None <=> freshness.result = "no_data"
        /\ freshness.last_update # None =>
              /\ FreshnessAge < 60 <=> freshness.result = "very_fresh"
              /\ (60 <= FreshnessAge /\ FreshnessAge < 360) <=> freshness.result = "fresh"
              /\ (360 <= FreshnessAge /\ FreshnessAge < 1440)
                 <=> freshness.result = "acceptable"
              /\ (1440 <= FreshnessAge /\ FreshnessAge < 4320) <=> freshness.result = "stale"
              /\ 4320 <= FreshnessAge <=> freshness.result = "very_stale"

\* a snapshot of 61 minutes, published 10 hours after the start, is fresh
C20_Witness ==
    /\ freshness.pc = "done"
    /\ freshness.last_update = 10 * Hour
    /\ FreshnessAge = 61
    /\ freshness.result = "fresh"

-----------------------------------------------------------------------------
(* Properties of the cadence (Spec) *)

\* C7: scans started by the loop run as independent tasks: the loop is never
\* suspended on a scan it started, so it can start the next due track meanwhile
C7_LoopNeverWaits ==
    \A l \in LoopIds, i \in ScanIds :
        (Running(scans[i]) /\ scans[i].origin = "loop" /\ scans[i].owner = l)
        => loops[l].pc # "scan"

\* C8: at every tick each track is triggered exactly when it never ran or the tick
\* time minus its last-scan time is at least its interval: 24 h, 6 h, 2 h
C8_TriggeredIffDue ==
    \A l \in LoopIds, t \in ScanTypes :
        loops[l].checks[t].checked =>
            (loops[l].checks[t].triggered <=>
                \/ loops[l].checks[t].seen = None
                \/ loops[l].current_time - loops[l].checks[t].seen >=
                      (IF t = "full_scan" THEN 24 ELSE IF t = "incremental" THEN 6 ELSE 2))

C8_Witness ==
    \E l \in LoopIds :
        /\ loops[l].checks["leaderboard_only"].triggered
        /\ loops[l].checks["leaderboard_only"].seen # None
        /\ loops[l].checks["incremental"].checked
        /\ ~loops[l].checks["incremental"].triggered

-----------------------------------------------------------------------------
(* Properties of select_model (SpecSelector) *)

\* C3: however publications interleave with select_model, a call scores every
\* candidate against one complete snapshot: the scores and the timestamp of the
\* publication that was the last one when it scored
C3_OneSnapshotPerSelection ==
    selection.pc = "done" =>
        \A i \in DOMAIN selection.result.scored_models :
            selection.result.scored_models[i].snapshot = selection.latest

C3_Witness ==
    /\ selection.pc = "done"
    /\ Len(selection.result.scored_models) >= 2
    /\ selection.latest.at # None
    /\ selection.started_at # selection.latest.at
    /\ DOMAIN selection.latest.scores # {}

\* the finished call of select_model that the properties below are about
Returned == selection.pc = "done" /\ ~selection.result.raised
Scored == selection.result.scored_models
Chosen == selection.result.choice

\* the static profiles of the call's configuration, and the cost of a candidate
\* that has one
Profiles == base_models(selection.cost_tiers)
HasProfile(m) == m \in DOMAIN Profiles
CostOf(m) == Profiles[m].cost_per_1k_tokens
BudgetCeiling == GetOr(selection.cost_tiers, "budget", Frac(1, 100))

\* the candidates at or below the budget ceiling, and the best of a set of candidates
WithinBudget == {i \in DOMAIN Scored : HasProfile(Scored[i].model)
                                       /\ FLeq(CostOf(Scored[i].model), BudgetCeiling)}
BestOf(S, i) == i \in S /\ \A j \in S : FLeq(Scored[j].score, Scored[i].score)

\* C13: for the budget tier the selected model is the highest-scoring candidate at
\* or below the budget ceiling when there is one, and the highest-scoring candidate
\* of all otherwise
C13_BudgetTierFilter ==
    (Returned /\ selection.budget_tier = "budget" /\ Scored # <<>>) =>
        \E i \in DOMAIN Scored :
            /\ Chosen.model = Scored[i].model
            /\ IF WithinBudget # {} THEN BestOf(WithinBudget, i)
               ELSE BestOf(DOMAIN Scored, i)

\* a candidate above the ceiling scores highest and a cheaper one is returned
C13_Witness ==
    /\ Returned /\ selection.budget_tier = "budget"
    /\ WithinBudget # {}
    /\ \E i \in DOMAIN Scored \ WithinBudget :
          \A j \in WithinBudget : FLess(Scored[j].score, Scored[i].score)
    /\ \E j \in WithinBudget : Chosen.model = Scored[j].model

\* C14: for a tier other than budget and at least one candidate, the returned model
\* has the highest final score of all candidates, and the confidence returned is
\* that score when the model has a static profile
C14_WinnerAndConfidence ==
    (Returned /\ selection.budget_tier # "budget" /\ Scored # <<>>) =>
        \E i \in DOMAIN Scored :
            /\ Chosen.model = Scored[i].model
            /\ BestOf(DOMAIN Scored, i)
            /\ HasProfile(Chosen.model) => Chosen.confidence = Scored[i].score

\* the winner is not the first candidate scored, and it outscores that one
C14_Witness ==
    /\ Returned /\ selection.budget_tier # "budget"
    /\ Len(Scored) >= 2
    /\ Chosen.model # Scored[1].model
    /\ HasProfile(Chosen.model)
    /\ FLess(Scored[1].score, Chosen.confidence)
    /\ DOMAIN selection.snapshot.scores # {}

\* the candidates the winner is taken from: those within the budget ceiling for
\* the budget tier when there are some, all of them otherwise
Eligible ==
    IF selection.budget_tier = "budget" /\ WithinBudget # {} THEN WithinBudget
    ELSE DOMAIN Scored

\* (scores are exact rationals here and binary floating point in the code: of the
\* ties below, the one at 71/100 is a tie of the doubles as well)
\* C15: among the eligible candidates that share the highest final score, the one
\* returned has the lowest cost_per_1k_tokens, wherever it stands in the list
C15_TiesBrokenByCost ==
    (Returned /\ Scored # <<>>) =>
        \A i, j \in Eligible :
            (BestOf(Eligible, i) /\ BestOf(Eligible, j) /\ Chosen.model = Scored[i].model
             /\ HasProfile(Scored[i].model) /\ HasProfile(Scored[j].model))
            => FLeq(CostOf(Scored[i].model), CostOf(Scored[j].model))

\* the dynamic score of candidate i as read from the snapshot the call used: the
\* theme score of the context's theme, else the overall score, over 100
InSnapshot(i) == Scored[i].model \in DOMAIN selection.snapshot.scores
SnapshotEntry(i) == selection.snapshot.scores[Scored[i].model]
DynamicOf(i) ==
    IF selection.context.theme \in DOMAIN SnapshotEntry(i).theme_scores
    THEN FDiv(SnapshotEntry(i).theme_scores[selection.context.theme], FInt(100))
    ELSE FDiv(SnapshotEntry(i).overall_score, FInt(100))
SnapshotAge == selection.clock - selection.snapshot.at
SnapshotFresh == selection.snapshot.at # None /\ SnapshotAge <= FreshHours
InUnit(x) == FLeq(FInt(0), x) /\ FLeq(x, FInt(1))

\* C16: the dynamic score derived for every model of a snapshot published from
\* metrics in 0..100 lies in [0,1], and so does the confidence returned
C16_ScoresInUnitInterval ==
    Returned =>
        /\ \A i \in DOMAIN Scored : InSnapshot(i) => InUnit(DynamicOf(i))
        /\ InUnit(Chosen.confidence)

\* the base score of candidate i under the call's configuration
BaseOf(i) ==
    _calculate_base_score(theme_model_rankings(selection.tier_preferences),
                          complexity_models(selection.tier_preferences),
                          Profiles, Scored[i].model, selection.context)

\* the scan that made the snapshot found candidate i with no usable overall metric
\* from any source, and no theme score
NoUsableMetric(i) ==
    /\ InSnapshot(i)
    /\ SnapshotEntry(i).sources_count = 0
    /\ DOMAIN SnapshotEntry(i).theme_scores = {}

\* C17: a candidate with no fresh dynamic data (absent from the snapshot, or found
\* with no usable metric) has no dynamic score: its final score is its base score
C17_AbsentIsNotZero ==
    Returned =>
        \A i \in DOMAIN Scored :
            (~InSnapshot(i) \/ NoUsableMetric(i)) => Scored[i].score = BaseOf(i)

C19_UnknownModelSelectable ==
    (Returned /\ ~HasProfile(Chosen.model)) =>
        /\ \E i \in Eligible : BestOf(Eligible, i) /\ Chosen.model = Scored[i].model
        /\ Chosen.provider = "unknown"
        /\ Chosen.confidence = Frac(1, 2)
        /\ Chosen.reasoning.qualifier = UnknownModelConfiguration

\* the model returned has no profile and is in the snapshot the call used
C19_Witness ==
    /\ Returned
    /\ ~HasProfile(Chosen.model)
    /\ Chosen.model \in DOMAIN selection.snapshot.scores
    /\ SnapshotFresh
    /\ Len(Scored) >= 2

\* C4: select_model returns a ModelChoice and raises nothing, for every context
\* and budget tier: no dynamic data, a candidate without a static profile, an
\* unrecognised complexity, no theme, no candidate at all
C4_AlwaysAChoice ==
    selection.pc = "done" => ~selection.result.raised

-----------------------------------------------------------------------------
(* Properties of the builders (SpecAggregation) *)

Aggregated == aggregation.pc # "idle"
RankingOf(theme) == aggregation.theme_rankings[theme]

\* the model keys the sources mention, in lexicographic order
ModelKeys == <<"claude-3-haiku", "claude-3-sonnet", "gpt-4", "mistral-7b">>
KeyIndex(m) == CHOOSE i \in DOMAIN ModelKeys : ModelKeys[i] = m
KeyLess(a, b) == KeyIndex(a) < KeyIndex(b)

\* the sources of all_model_data that report the model m, by position
ReportedBy(all_model_data, m) ==
    {k \in DOMAIN all_model_data :
        \E i \in DOMAIN all_model_data[k].data : all_model_data[k].data[i].model = m}
ScannedModels(all_model_data) ==
    {ModelKeys[i] : i \in {j \in DOMAIN ModelKeys : ReportedBy(all_model_data, ModelKeys[j]) # {}}}

\* source_data[model_name]["scores"]
ScoresIn(source_data, m) ==
    source_data[CHOOSE i \in DOMAIN source_data : source_data[i].model = m].scores

\* the sources that report a usable metric of m
UsableSources(all_model_data, m) ==
    {k \in ReportedBy(all_model_data, m) : Usable(ScoresIn(all_model_data[k].data, m))}

\* those of them that have a weight for the theme
ContributingSources(all_model_data, theme, m) ==
    {k \in UsableSources(all_model_data, m) :
        SourceWeight(theme, all_model_data[k].source) # FInt(0)}

ContributingModels(all_model_data, theme) ==
    {m \in ScannedModels(all_model_data) : ContributingSources(all_model_data, theme, m) # {}}

\* C21: in every theme ranking the ranks are 1..N without gap or duplicate, N is
\* the number of models with a contributing source of nonzero weight, no model
\* is listed twice, and the scores descend with the rank
C21_RanksAreOneToN ==
    Aggregated =>
        \A th \in Themes :
            /\ Len(RankingOf(th)) =
                   Cardinality(ContributingModels(aggregation.all_model_data, th))
            /\ \A i \in DOMAIN RankingOf(th) :
                  /\ RankingOf(th)[i].rank = i
                  /\ RankingOf(th)[i].model \in
                         ContributingModels(aggregation.all_model_data, th)
                  /\ \A j \in DOMAIN RankingOf(th) :
                        /\ i < j => FLeq(RankingOf(th)[j].score, RankingOf(th)[i].score)
                        /\ i # j => RankingOf(th)[i].model # RankingOf(th)[j].model

\* a ranking of three models with two different scores, while a model of the
\* scan has no place in it
C21_Witness ==
    /\ Aggregated
    /\ \E th \in Themes :
          /\ Len(RankingOf(th)) = 3
          /\ FLess(RankingOf(th)[3].score, RankingOf(th)[1].score)
          /\ ScannedModels(aggregation.all_model_data) #
                 ContributingModels(aggregation.all_model_data, th)

\* C22: two models with the same weighted score in a theme are ranked by their
\* keys: the lexicographically smaller key has the smaller rank, in whatever
\* order the sources listed them
C22_TiesOrderedByKey ==
    Aggregated =>
        \A th \in Themes : \A i, j \in DOMAIN RankingOf(th) :
            (i < j /\ RankingOf(th)[i].score = RankingOf(th)[j].score)
                => KeyLess(RankingOf(th)[i].model, RankingOf(th)[j].model)

EvaluationOf(m) == aggregation.model_evaluations[m]

\* C23: a model for which no source reported a usable overall metric has no
\* entry in the evaluation map: every entry counts at least one source
C23_NoEntryWithoutMetric ==
    Aggregated =>
        \A m \in DOMAIN aggregation.model_evaluations :
            /\ UsableSources(aggregation.all_model_data, m) # {}
            /\ EvaluationOf(m).sources_count > 0

\* the usable overall metric that the source at position k reports for m
MetricIn(all_model_data, k, m) == OverallOf(ScoresIn(all_model_data[k].data, m)).v

RECURSIVE SumOfMetrics(_, _, _)
SumOfMetrics(all_model_data, m, positions) ==
    IF positions = {} THEN 0
    ELSE LET k == CHOOSE x \in positions : TRUE
         IN MetricIn(all_model_data, k, m) + SumOfMetrics(all_model_data, m, positions \ {k})

\* C24: sources_count of an entry is the number of sources that reported a
\* usable overall metric of the model, and overall_score is the arithmetic
\* mean of these metrics
C24_MeanOfUsableMetrics ==
    Aggregated =>
        \A m \in DOMAIN aggregation.model_evaluations :
            /\ EvaluationOf(m).sources_count =
                   Cardinality(UsableSources(aggregation.all_model_data, m))
            /\ UsableSources(aggregation.all_model_data, m) # {} =>
                   FMul(EvaluationOf(m).overall_score, FInt(EvaluationOf(m).sources_count)) =
                   FInt(SumOfMetrics(aggregation.all_model_data, m,
                                     UsableSources(aggregation.all_model_data, m)))

\* a model reported by two sources of which one gives a usable metric, and a
\* model whose two metrics differ
C24_Witness ==
    /\ Aggregated
    /\ \E m \in DOMAIN aggregation.model_evaluations :
          /\ Cardinality(ReportedBy(aggregation.all_model_data, m)) = 2
          /\ EvaluationOf(m).sources_count = 1
    /\ \E m \in DOMAIN aggregation.model_evaluations :
          /\ EvaluationOf(m).sources_count = 2
          /\ EvaluationOf(m).overall_score = FInt(85)

\* C25: _create_model_evaluations called twice with the same arguments, at
\* different times, returns the same map, last_updated included
C25_BuilderIdempotent ==
    aggregation.pc = "again" => aggregation.again = aggregation.model_evaluations

\* the weight of the source at position k for the theme
WeightIn(all_model_data, theme, k) == SourceWeight(theme, all_model_data[k].source)

RECURSIVE SumOfWeights(_, _, _)
SumOfWeights(all_model_data, theme, positions) ==
    IF positions = {} THEN FInt(0)
    ELSE LET k == CHOOSE x \in positions : TRUE
         IN FAdd(WeightIn(all_model_data, theme, k),
                 SumOfWeights(all_model_data, theme, positions \ {k}))

RECURSIVE SumOfWeighted(_, _, _, _)
SumOfWeighted(all_model_data, theme, m, positions) ==
    IF positions = {} THEN FInt(0)
    ELSE LET k == CHOOSE x \in positions : TRUE
         IN FAdd(FMul(FInt(MetricIn(all_model_data, k, m)), WeightIn(all_model_data, theme, k)),
                 SumOfWeighted(all_model_data, theme, m, positions \ {k}))

\* sum(metric * weight) / sum(weight) over the contributing sources of m
WeightedMean(all_model_data, theme, m) ==
    FDiv(SumOfWeighted(all_model_data, theme, m,
                       ContributingSources(all_model_data, theme, m)),
         SumOfWeights(all_model_data, theme, ContributingSources(all_model_data, theme, m)))

\* C27: the score of a model in a theme ranking is sum(metric * weight) /
\* sum(weight) over the sources with a nonzero weight for the theme that report
\* a usable metric of it, and a model without such a source is not ranked
C27_WeightedMeanScore ==
    Aggregated =>
        \A th \in Themes :
            /\ \A i \in DOMAIN RankingOf(th) :
                  RankingOf(th)[i].score =
                      WeightedMean(aggregation.all_model_data, th, RankingOf(th)[i].model)
            /\ \A m \in ScannedModels(aggregation.all_model_data) :
                  ContributingSources(aggregation.all_model_data, th, m) = {}
                      => ~InRanking(RankingOf(th), m)

\* srcA {gpt-4: 90} with weight 0.6, srcB {gpt-4: 80, claude-3-sonnet: 95} with
\* weight 0.4: claude-3-sonnet 95 is ranked first, gpt-4 86 second, and in the
\* theme where srcA has no weight gpt-4 has the score of srcB alone
C27_Witness ==
    /\ Aggregated
    /\ Len(RankingOf("coding_programming")) = 2
    /\ RankingOf("coding_programming")[1].model = "claude-3-sonnet"
    /\ RankingOf("coding_programming")[1].score = FInt(95)
    /\ RankingOf("coding_programming")[2].model = "gpt-4"
    /\ RankingOf("coding_programming")[2].score = FInt(86)
    /\ RankingEntry(RankingOf("general_questions"), "gpt-4").score = FInt(80)
    /\ RankingOf("creative_writing") = <<>>

-----------------------------------------------------------------------------
(* Properties of _normalize_model_name (SpecNormalization) *)

\* C26: normalizing a normalized name changes nothing:
\* _normalize_model_name(_normalize_model_name(x)) = _normalize_model_name(x)
C26_NormalizeIdempotent ==
    normalization.pc = "twice" => normalization.twice = normalization.once

-----------------------------------------------------------------------------
(* Properties of the publications (SpecPublish) *)

\* C28: a publication replaces the snapshot of the selector as a whole: the new
\* snapshot is the map built from the evaluations of the scan that publishes,
\* every entry of it was built by that scan, and the snapshot a call was served
\* from before is as it was
C28_PublishReplacesSnapshot ==
    [][(dynamic_model_scores' # dynamic_model_scores
        \/ last_evaluation_update' # last_evaluation_update)
       => /\ dynamic_model_scores' = last_result'.scores
          /\ last_evaluation_update' = now
          /\ \A m \in DOMAIN dynamic_model_scores' :
                dynamic_model_scores'[m].last_updated = now
          /\ selection'.snapshot = selection.snapshot]_vars

\* a call was served from a snapshot with gpt-4; a later publication without
\* gpt-4 replaced it
C28_Witness ==
    /\ selection.pc = "done"
    /\ "gpt-4" \in DOMAIN selection.snapshot.scores
    /\ selection.snapshot.at < last_evaluation_update
    /\ "gpt-4" \notin DOMAIN dynamic_model_scores
    /\ dynamic_model_scores # EmptyMap

-----------------------------------------------------------------------------
(* Properties of the requests (SpecChat) *)

\* C29: the select_model call of a request is served from the snapshot that
\* was published last: the one of the last scan that published, whether or
\* not another scan is running
C29_RequestsUseLastPublished ==
    selection.pc = "done" => selection.snapshot = selection.latest

-----------------------------------------------------------------------------
(* Properties of the publication by a scan (SpecScan) *)

\* the snapshot of the selector changes in this step
SnapshotChanges ==
    \/ dynamic_model_scores' # dynamic_model_scores
    \/ last_evaluation_update' # last_evaluation_update

\* C30: the snapshot of the selector changes only in the step in which a scan
\* returns, after each of its active sources was attempted (it gave data or
\* failed) and the rankings and the evaluation map were built from all the data
\* gathered; a scan that goes on running changes nothing the selector sees
C30_PublishedAfterAllSources ==
    [][SnapshotChanges =>
          /\ last_result'.scan.status = "ok"
          /\ last_result'.scan.sources = Len(evaluation_sources)
          /\ last_result'.scan.sources_scanned + last_result'.scan.failed_scrapes
                 = last_result'.scan.sources
          /\ dynamic_model_scores' = last_result'.scores
          /\ Cardinality(DOMAIN dynamic_model_scores') = scan_stats'.models_tracked
          /\ \A i \in ScanIds : Running(scans'[i]) => scans'[i] = scans[i]]_vars

\* a scan of two sources, one that failed and one that gave data, has published
\* while another scan is still running
C30_Witness ==
    /\ last_result.published
    /\ last_result.scan.sources = 2
    /\ last_result.scan.failed_scrapes = 1
    /\ last_result.scan.sources_scanned = 1
    /\ dynamic_model_scores = last_result.scores
    /\ "gpt-4" \in DOMAIN dynamic_model_scores
    /\ \E i \in ScanIds : Running(scans[i]) /\ scans[i].all_model_data # <<>>

-----------------------------------------------------------------------------
(* Properties of the arena path (SpecArena) *)

\* the API path did not deliver records
ApiFailed == arena.api_endpoint /\ arena.api # "records"

\* C31: whenever the API path of an arena source fails (the request raises,
\* the status is not 200, the JSON is no list of records) the HTML page at the
\* source's URL is scraped, and when that succeeds the source gives the data
\* of the page and no error is recorded for it
C31_ApiFailureFallsBackToHtml ==
    (arena.pc = "done" /\ ApiFailed) =>
        /\ arena.html_attempted
        /\ arena.html.kind = "data" => (arena.source_data = arena.html /\ arena.errors = 0)

-----------------------------------------------------------------------------
(* Properties of the reasoning (SpecSelector) *)

\* C32: the reasoning of a choice cites the recent evaluations only when a
\* dynamic score entered the final score of the model chosen: not when the
\* snapshot is older than 7 days, and not when the model has no dynamic score
C32_EvaluationsCitedOnlyWhenUsed ==
    (Returned /\ Member(Chosen.reasoning.reasons, "performs well in recent evaluations"))
        => ~_get_dynamic_score(selection.snapshot, selection.clock, Chosen.model,
                               selection.context).none

-----------------------------------------------------------------------------
(* Properties of _filter_by_complexity (SpecReordering) *)

Reordered == reordering.result
ElementsOf(seq) == {seq[i] : i \in DOMAIN seq}
\* the position at which x comes first in seq
FirstAt(seq, x) == CHOOSE i \in DOMAIN seq : seq[i] = x /\ \A j \in 1..(i - 1) : seq[j] # x
IsPreferred(x) == x \in ElementsOf(reordering.preferred)

\* C33: _filter_by_complexity only reorders. Its result has exactly the models
\* of the candidate list; for a complexity it knows, each model is there once,
\* the models preferred for the complexity come first, in the order of the
\* preference, and the others follow in the order of the candidate list; for
\* another complexity the result is the candidate list
C33_ComplexityOnlyReorders ==
    reordering.pc = "done" =>
        /\ ElementsOf(Reordered) = ElementsOf(reordering.candidates)
        /\ ~reordering.recognised => Reordered = reordering.candidates
        /\ reordering.recognised =>
              \A i, j \in DOMAIN Reordered :
                  i < j =>
                     /\ Reordered[i] # Reordered[j]
                     /\ IsPreferred(Reordered[j]) => IsPreferred(Reordered[i])
                     /\ (IsPreferred(Reordered[i]) /\ IsPreferred(Reordered[j])) =>
                           FirstAt(reordering.preferred, Reordered[i])
                              < FirstAt(reordering.preferred, Reordered[j])
                     /\ (~IsPreferred(Reordered[i]) /\ ~IsPreferred(Reordered[j])) =>
                           FirstAt(reordering.candidates, Reordered[i])
                              < FirstAt(reordering.candidates, Reordered[j])

\* the two models preferred for the complexity are in the list in the other
\* order, behind a model that is not preferred
C33_Witness ==
    /\ reordering.pc = "done"
    /\ reordering.recognised
    /\ reordering.candidates = <<"claude-3-haiku", "gpt-4", "claude-3-sonnet">>
    /\ Reordered = <<"claude-3-sonnet", "gpt-4", "claude-3-haiku">>

-----------------------------------------------------------------------------
(* Properties of start_scheduler and stop_scheduler (SpecLifecycle) *)

\* a _scheduler_loop task that has not left its while loop
Live(l) == loops[l].pc \in {"top", "sleep", "scan"}
LiveLoops == {l \in LoopIds : Live(l)}

\* C34: whatever the sequence of start_scheduler and stop_scheduler calls, at
\* most one scheduler loop is live while the scheduler runs
C34_AtMostOneLoop ==
    is_running => Cardinality(LiveLoops) <= 1

\* a scan started by a scheduler loop begins in this step
LoopScanStarts ==
    \E i \in ScanIds : scans'[i].origin = "loop" /\ Running(scans'[i]) /\ ~Running(scans[i])

\* C35: once stop_scheduler has returned the scheduler loop starts no scan: a
\* step taken while is_running is false begins no scan of loop origin
C35_NoScanAfterStop ==
    [][~is_running => ~LoopScanStarts]_vars

-----------------------------------------------------------------------------
(* Properties of the cadence (Spec) *)

\* a scan of type t started by the loop or by the startup task begins in this step
SchedulerScanStarts(t) ==
    \E i \in ScanIds :
        /\ scans'[i].origin \in {"loop", "initial"}
        /\ scans'[i].type = t
        /\ Running(scans'[i]) /\ ~Running(scans[i])

\* C36: without force_scan, once a scan of type t has succeeded the scheduler
\* starts no scan of type t before the interval of t has elapsed since the start
\* of that scan, the startup scan and the first pass of the loop included
C36_NoScanWithinInterval ==
    [][\A t \in ScanTypes :
          (SchedulerScanStarts(t) /\ last_scans[t] # None)
              => now - last_scans[t] >= scan_intervals[t]]_vars

\* a scan ends in the except block of _run_scan in this step
ScanFails == scan_stats'.failed_scans > scan_stats.failed_scans

\* the loop task l is in a pass that found the track t due
TriggeredIn(l, t) == loops[l].checks[t].checked /\ loops[l].checks[t].triggered

\* C37: a failed scan leaves last_scans as it is and the loop that awaited it
\* goes on; a track whose scan failed and that no scan has completed yet is
\* triggered again by every pass of a loop that checks it
C37_FailedTrackStaysDue ==
    /\ [][ScanFails =>
            /\ last_scans' = last_scans
            /\ \A l \in LoopIds : Live(l) => Live(l)']_vars
    /\ [](\A l \in LoopIds, t \in ScanTypes :
            (/\ last_result.scan.status = "failed"
             /\ last_result.scan.origin = "loop"
             /\ last_result.scan.type = t
             /\ loops[l].checks[t].checked
             /\ loops[l].checks[t].seen = None) => loops[l].checks[t].triggered)

\* the scan of leaderboard_only failed in the first pass; in a later pass, in
\* which full_scan is not due any more, leaderboard_only is triggered again
C37_Witness ==
    /\ last_result.scan.status = "failed"
    /\ last_result.scan.origin = "loop"
    /\ last_result.scan.type = "leaderboard_only"
    /\ \E l \in LoopIds :
          /\ loops[l].checks["full_scan"].checked
          /\ ~loops[l].checks["full_scan"].triggered
          /\ TriggeredIn(l, "leaderboard_only")
          /\ loops[l].checks["leaderboard_only"].seen = None

\* ---------------------------------------------------------------------
\* Properties of the scheduler's bookkeeping (SpecScan)
\* ---------------------------------------------------------------------

\* C38: the time of the last successful scan of a track never decreases
C38_LastScanNeverDecreases ==
    [][\A t \in ScanTypes :
          last_scans[t] # None => (last_scans'[t] # None /\ last_scans'[t] >= last_scans[t])]_vars

\* C39: total_scans is the sum of successful_scans and failed_scans
C39_TotalIsSuccessfulPlusFailed ==
    scan_stats.total_scans = scan_stats.successful_scans + scan_stats.failed_scans

\* ---------------------------------------------------------------------
\* Sources without a summary metric (SpecAggregation)
\* ---------------------------------------------------------------------

\* no observation of the source carries "overall" or "Average"
MetricLess(source_data) ==
    \A i \in DOMAIN source_data :
        /\ "overall" \notin DOMAIN source_data[i].scores
        /\ "Average" \notin DOMAIN source_data[i].scores

\* all_model_data without the sources that carry no summary metric
WithMetrics(all_model_data) ==
    LET Keeps(rec) == ~MetricLess(rec.data)
    IN SelectSeq(all_model_data, Keeps)

\* the models of a ranking with their scores
ScoresOfRanking(ranking) == {<<ranking[i].model, ranking[i].score>> : i \in DOMAIN ranking}

====
